---- MODULE Spec2Model ----
(***************************************************************************)
(* Verification model of the analysis orchestration engine of              *)
(* daily_stock_analysis: circuit breaker, bulk-quote caches, expert-panel  *)
(* endpoint failover, task lifecycle and runtime configuration.            *)
(*                                                                         *)
(* Each subsystem has its own variables and its own specification          *)
(* (SpecBreaker, SpecQuote, ...); a specification leaves the variables of  *)
(* the other subsystems unchanged.                                         *)
(***************************************************************************)
EXTENDS Integers, Sequences, FiniteSets, TLC

(***************************************************************************)
(* Bounds of the model                                                     *)
(***************************************************************************)
\* the wall clock (seconds) starts here and advances in steps of TimeStep
StartTime == 1000
TimeStep == 100
\* number of clock steps explored
MaxTicks == 5
\* record_failure is not called on a source beyond this many counted failures
MaxFailures == 4
\* the breaker harness issues at most this many is_available calls between
\* two recorded outcomes of a HALF_OPEN source
MaxProbes == 3
\* the clock of the quote specification advances in steps of QuoteTimeStep
QuoteTimeStep == 1200
MaxQuoteTicks == 1
\* realtime-quote requests started in one run of the quote specification
MaxRequests == 3
\* endpoints configured under one logical model
MaxEndpoints == 3
\* characters of the longest error text an endpoint produces
LongLen == 450
\* logical models selected for one panel run
MaxModels == 2
\* submit_analysis calls in one run of the task-service specification
MaxSubmits == 3
\* distinct readings of datetime.now() in that run
MaxClock == 2
\* tasks the queue accepts in one run of the queue specification
MaxTasks == 2
\* size of the queue's worker pool
QueueWorkers == 1
\* heartbeats one SSE connection sends
MaxHeartbeats == 1
\* items in one configuration update
MaxItems == 2
\* the .env file's st_mtime_ns takes the values 0..MaxMtime
MaxMtime == 1
\* the quotas a TushareFetcher is constructed with are 1..MaxQuota
MaxQuota == 2
\* seconds that pass between two calls of the rate limiter, when any pass
RateTimeStep == 25
\* the rate limiter's clock runs from 0 to MaxRateClock seconds
MaxRateClock == 150
\* a search provider is constructed with up to MaxKeys API keys
MaxKeys == 2

(***************************************************************************)
(* Circuit breaker: data_provider/realtime_types.py, class CircuitBreaker  *)
(***************************************************************************)
CLOSED == "closed"
OPEN == "open"
HALF_OPEN == "half_open"

\* _realtime_circuit_breaker = CircuitBreaker(3, 300.0, 1)
failure_threshold == 3
cooldown_seconds == 300
half_open_max_calls == 1

\* the source names the akshare fetcher uses on the realtime breaker
Sources == {"akshare_em", "akshare_hk", "akshare_etf"}
\* the sources the breaker harness drives
HarnessSources == {"akshare_em", "akshare_hk"}

VARIABLES
    now,          \* time.time(), in seconds
    cb_states,    \* CircuitBreaker._states: source -> state record
    cb_call,      \* the last breaker call of the harness: its arguments, the
                  \* entry it found and its return value
    cb_probes,    \* source -> number of is_available calls answered True while
                  \* the source was HALF_OPEN and no outcome was recorded since
    cb_streak,    \* source -> number of record_failure calls on it since it
                  \* was last CLOSED with failure counter 0
    cb_opened     \* source -> the time of the record_failure call that last
                  \* turned it OPEN

VARIABLES
    cache,        \* akshare_fetcher._realtime_cache, _etf_realtime_cache,
                  \* _hk_realtime_cache: cache name -> [data, timestamp]
    q,            \* per thread: the get_realtime_quote call it is executing
    q_started,    \* number of get_realtime_quote calls started
    q_failed      \* the last bulk refresh that failed to the end: its cache
                  \* and the time that refresh read before it began

VARIABLES
    panel_pc,     \* "idle" before _run_single_model is called, "done" after
    panel_cfg,    \* model_config.endpoints of that call
    panel_outs,   \* what each enabled endpoint of that call does when tried
    panel_res     \* the ModelResult it returned

VARIABLES
    ep_pc,        \* run_expert_panel: "idle", "running" (workers out), "done"
    ep_selected,  \* selected_models, the caller's list (empty for None)
    ep_names,     \* model_names, the names of the selected configs
    ep_reordered, \* whether the sort of the last panel moved a result
    ep_results,   \* model_results
    ep_out        \* the ExpertPanelResult returned, or the exception raised

VARIABLES
    ts_clock,     \* what datetime.now() reads, in microseconds
    ts_jobs,      \* the work items handed to the ThreadPoolExecutor, in
                  \* submission order
    ts_tasks,     \* TaskService._tasks: task_id -> task record
    ts_seen       \* task_id -> the status values _tasks held for it over
                  \* time, one entry per change

VARIABLES
    tq_tasks,       \* the queue's task table: task_id -> task record
    tq_subscribers, \* the event channels subscribed to the queue
    tq_resp,        \* the last response of _handle_async_analysis
    sse             \* per SSE connection: position of event_generator, its
                    \* snapshot, its event_queue, the connected and task
                    \* events it has sent and the number of heartbeats sent

VARIABLES
    cfg_backend,    \* the backend get_config_backend chose: "env" or "db"
    cfg_file,       \* the .env file: st_mtime_ns and, per key, the text
                    \* after `KEY=` on the key's line; with the db backend
                    \* the rows of the system_config table
    cfg_runtime,    \* the key-value map the Config singleton was loaded from
    cfg_pc,         \* per client thread: where it is in SystemConfigService.update
    cfg_call,       \* the last step of an update: what it was given, the
                    \* file it found and what it returned or raised
    cfg_written     \* whether some update has changed the stored content

VARIABLES
    race_table,     \* the system_config table two concurrent updates share
    race_pc,        \* per update thread: where it is in update
    race_call       \* per update thread: its arguments, the locals of
                    \* DbBackend.apply_updates and how the call ended

VARIABLES
    br_states,      \* _states[source] while threads call record_failure on one
                    \* source at the same time: the dict it refers to, 0 for none
    br_dicts,       \* the state dicts created so far, by the thread that made them
    br_pc,          \* per thread: where it is in record_failure
    br_local        \* per thread: the dict _get_state returned to it and the
                    \* failure count it read

VARIABLES
    rl_quota,       \* TushareFetcher.rate_limit_per_minute, 0 before __init__
    rl_clock,       \* time.time(), in seconds
    rl_minute_start,\* TushareFetcher._minute_start
    rl_call_count,  \* TushareFetcher._call_count
    rl_call,        \* the last _check_rate_limit call: what its quota check
                    \* found, when it was made and when it returned
    rl_admits       \* the calls that returned since _minute_start last changed

VARIABLES
    sk_keys,        \* BaseSearchProvider._api_keys
    sk_next,        \* the index in _api_keys of the key next(_key_cycle) yields,
                    \* 0 before __init__
    sk_errors,      \* BaseSearchProvider._key_errors
    sk_call         \* the last search call: the state _get_next_key found, the
                    \* key it returned and the outcome of the search

cbVars == <<cb_states, cb_call, cb_probes, cb_streak, cb_opened>>
qVars == <<cache, q, q_started, q_failed>>
panelVars == <<panel_pc, panel_cfg, panel_outs, panel_res>>
epVars == <<ep_pc, ep_selected, ep_names, ep_reordered, ep_results, ep_out>>
tsVars == <<ts_clock, ts_jobs, ts_tasks, ts_seen>>
tqVars == <<tq_tasks, tq_subscribers, tq_resp, sse>>
cfgVars == <<cfg_backend, cfg_file, cfg_runtime, cfg_pc, cfg_call, cfg_written>>
raceVars == <<race_table, race_pc, race_call>>
brVars == <<br_states, br_dicts, br_pc, br_local>>
rlVars == <<rl_quota, rl_clock, rl_minute_start, rl_call_count, rl_call, rl_admits>>
skVars == <<sk_keys, sk_next, sk_errors, sk_call>>
vars == <<now, cb_states, cb_call, cb_probes, cb_streak, cb_opened, cache, q, q_started, q_failed,
          panel_pc, panel_cfg, panel_outs, panel_res,
          ep_pc, ep_selected, ep_names, ep_reordered, ep_results, ep_out,
          ts_clock, ts_jobs, ts_tasks, ts_seen,
          tq_tasks, tq_subscribers, tq_resp, sse,
          cfg_backend, cfg_file, cfg_runtime, cfg_pc, cfg_call, cfg_written,
          race_table, race_pc, race_call,
          br_states, br_dicts, br_pc, br_local,
          rl_quota, rl_clock, rl_minute_start, rl_call_count, rl_call, rl_admits,
          sk_keys, sk_next, sk_errors, sk_call>>

\* what the actions of one subsystem leave alone
outsideBreaker == <<now, qVars, panelVars, epVars, tsVars, tqVars, cfgVars, raceVars, brVars, rlVars, skVars>>
outsideQuote == <<panelVars, epVars, tsVars, tqVars, cfgVars, raceVars, brVars, rlVars, skVars>>
outsidePanel == <<now, cbVars, qVars, epVars, tsVars, tqVars, cfgVars, raceVars, brVars, rlVars, skVars>>
outsideExpertPanel == <<now, cbVars, qVars, panelVars, tsVars, tqVars, cfgVars, raceVars, brVars, rlVars, skVars>>
outsideTaskService == <<now, cbVars, qVars, panelVars, epVars, tqVars, cfgVars, raceVars, brVars, rlVars, skVars>>
outsideQueue == <<now, cbVars, qVars, panelVars, epVars, tsVars, cfgVars, raceVars, brVars, rlVars, skVars>>
outsideConfig == <<now, cbVars, qVars, panelVars, epVars, tsVars, tqVars, raceVars, brVars, rlVars, skVars>>
outsideRace == <<now, cbVars, qVars, panelVars, epVars, tsVars, tqVars, cfgVars, brVars, rlVars, skVars>>
outsideBreakerRace == <<now, cbVars, qVars, panelVars, epVars, tsVars, tqVars, cfgVars, raceVars, rlVars, skVars>>
outsideRateLimit == <<now, cbVars, qVars, panelVars, epVars, tsVars, tqVars, cfgVars, raceVars, brVars, skVars>>
outsideSearch == <<now, cbVars, qVars, panelVars, epVars, tsVars, tqVars, cfgVars, raceVars, brVars, rlVars>>

\* the entry _get_state creates for an unknown source
DefaultState ==
    [state |-> CLOSED, failures |-> 0, last_failure_time |-> 0, half_open_calls |-> 0]

\* _get_state: the states dict after the lookup (the entry is created on a miss)
GetState(states, source) ==
    IF source \in DOMAIN states
    THEN states
    ELSE [x \in (DOMAIN states) \cup {source} |->
            IF x = source THEN DefaultState ELSE states[x]]

\* a cooldown check that forgets to subtract last_failure_time
IsAvailableNoSubtract(states, source, current_time) ==
    LET st == GetState(states, source)
        e == st[source]
    IN  IF e.state = CLOSED THEN [ret |-> TRUE, states |-> st]
        ELSE IF e.state = OPEN
        THEN IF current_time >= cooldown_seconds
             THEN [ret |-> TRUE,
                   states |-> [st EXCEPT ![source].state = HALF_OPEN,
                                         ![source].half_open_calls = 0]]
             ELSE [ret |-> FALSE, states |-> st]
        ELSE [ret |-> e.half_open_calls < half_open_max_calls, states |-> st]

\* a cooldown check that asks for more than the cooldown
IsAvailableAfterCooldown(states, source, current_time) ==
    LET st == GetState(states, source)
        e == st[source]
    IN  IF e.state = CLOSED THEN [ret |-> TRUE, states |-> st]
        ELSE IF e.state = OPEN
        THEN IF current_time - e.last_failure_time > cooldown_seconds
             THEN [ret |-> TRUE,
                   states |-> [st EXCEPT ![source].state = HALF_OPEN,
                                         ![source].half_open_calls = 0]]
             ELSE [ret |-> FALSE, states |-> st]
        ELSE [ret |-> e.half_open_calls < half_open_max_calls, states |-> st]

\* is_available: the return value and the states dict after the call
IsAvailable(states, source, current_time) ==
    LET st == GetState(states, source)
        e == st[source]
    IN  IF e.state = CLOSED THEN [ret |-> TRUE, states |-> st]
        ELSE IF e.state = OPEN
        THEN IF current_time - e.last_failure_time >= cooldown_seconds
             THEN [ret |-> TRUE,
                   states |-> [st EXCEPT ![source].state = HALF_OPEN,
                                         ![source].half_open_calls = 0]]
             ELSE [ret |-> FALSE, states |-> st]
        ELSE \* HALF_OPEN: half_open_calls is compared, and written nowhere but as 0
             [ret |-> e.half_open_calls < half_open_max_calls, states |-> st]

\* record_success: the states dict after the call
RecordSuccess(states, source) ==
    LET st == GetState(states, source)
    IN  [st EXCEPT ![source].state = CLOSED,
                   ![source].failures = 0,
                   ![source].half_open_calls = 0]

\* a record_failure that opens one failure late
RecordFailureOpensLate(states, source, current_time) ==
    LET st == GetState(states, source)
        e == st[source]
        counted == [e EXCEPT !.failures = e.failures + 1,
                             !.last_failure_time = current_time]
    IN  [st EXCEPT ![source] =
            IF e.state = HALF_OPEN
            THEN [counted EXCEPT !.state = OPEN, !.half_open_calls = 0]
            ELSE IF counted.failures > failure_threshold
                 THEN [counted EXCEPT !.state = OPEN]
                 ELSE counted]

\* a record_failure that keeps the old last_failure_time of a HALF_OPEN source
RecordFailureKeepsTime(states, source, current_time) ==
    LET st == GetState(states, source)
        e == st[source]
        counted == [e EXCEPT !.failures = e.failures + 1,
                             !.last_failure_time = current_time]
    IN  [st EXCEPT ![source] =
            IF e.state = HALF_OPEN
            THEN [e EXCEPT !.failures = e.failures + 1,
                           !.state = OPEN, !.half_open_calls = 0]
            ELSE IF counted.failures >= failure_threshold
                 THEN [counted EXCEPT !.state = OPEN]
                 ELSE counted]

\* record_failure: the states dict after the call
RecordFailure(states, source, current_time) ==
    LET st == GetState(states, source)
        e == st[source]
        counted == [e EXCEPT !.failures = e.failures + 1,
                             !.last_failure_time = current_time]
    IN  [st EXCEPT ![source] =
            IF e.state = HALF_OPEN
            THEN [counted EXCEPT !.state = OPEN, !.half_open_calls = 0]
            ELSE IF counted.failures >= failure_threshold
                 THEN [counted EXCEPT !.state = OPEN]
                 ELSE counted]

\* reset(source): the entry is deleted
ResetSource(states, source) ==
    [x \in (DOMAIN states) \ {source} |-> states[x]]

\* the entry a call on `source` works on
EntryOf(states, source) == GetState(states, source)[source]

NoCall == [op |-> "none", source |-> "", pre |-> DefaultState, at |-> 0, ret |-> TRUE]

(***************************************************************************)
(* The breaker harness: every operation, any source, any time              *)
(***************************************************************************)
Tick ==
    /\ now < StartTime + MaxTicks * TimeStep
    /\ now' = now + TimeStep

CallIsAvailable(s) ==
    LET pre == EntryOf(cb_states, s)
        r == IsAvailable(cb_states, s, now)
    IN  /\ cb_probes[s] < MaxProbes
        /\ cb_states' = r.states
        /\ cb_call' = [op |-> "is_available", source |-> s, pre |-> pre,
                       at |-> now, ret |-> r.ret]
        /\ cb_probes' = [cb_probes EXCEPT ![s] =
                            IF pre.state = HALF_OPEN /\ r.ret THEN @ + 1 ELSE @]
        /\ UNCHANGED <<cb_streak, cb_opened>>

CallRecordSuccess(s) ==
    /\ cb_states' = RecordSuccess(cb_states, s)
    /\ cb_call' = [op |-> "record_success", source |-> s,
                   pre |-> EntryOf(cb_states, s), at |-> now, ret |-> TRUE]
    /\ cb_probes' = [cb_probes EXCEPT ![s] = 0]
    /\ cb_streak' = [cb_streak EXCEPT ![s] = 0]
    /\ cb_opened' = [cb_opened EXCEPT ![s] = 0]

CallRecordFailure(s) ==
    /\ EntryOf(cb_states, s).failures < MaxFailures
    /\ cb_states' = RecordFailure(cb_states, s, now)
    /\ cb_call' = [op |-> "record_failure", source |-> s,
                   pre |-> EntryOf(cb_states, s), at |-> now, ret |-> TRUE]
    /\ cb_probes' = [cb_probes EXCEPT ![s] = 0]
    /\ cb_streak' = [cb_streak EXCEPT ![s] = @ + 1]
    /\ cb_opened' = [cb_opened EXCEPT ![s] =
                        IF /\ EntryOf(cb_states, s).state # OPEN
                           /\ RecordFailure(cb_states, s, now)[s].state = OPEN
                        THEN now ELSE @]

CallReset(s) ==
    /\ s \in DOMAIN cb_states
    /\ cb_states' = ResetSource(cb_states, s)
    /\ cb_call' = [op |-> "reset", source |-> s,
                   pre |-> EntryOf(cb_states, s), at |-> now, ret |-> TRUE]
    /\ cb_probes' = [cb_probes EXCEPT ![s] = 0]
    /\ cb_streak' = [cb_streak EXCEPT ![s] = 0]
    /\ cb_opened' = [cb_opened EXCEPT ![s] = 0]

InitBreaker ==
    /\ now = StartTime
    /\ cb_states = <<>>
    /\ cb_call = NoCall
    /\ cb_probes = [s \in Sources |-> 0]
    /\ cb_streak = [s \in Sources |-> 0]
    /\ cb_opened = [s \in Sources |-> 0]

(***************************************************************************)
(* record_failure called by several threads at once on one source of the   *)
(* shared breaker: data_provider/realtime_types.py, no lock is taken       *)
(***************************************************************************)
\* as many threads as failures open the breaker
FailureThreads == 1..failure_threshold

InitBreakerRace ==
    /\ br_states = 0
    /\ br_dicts = [t \in FailureThreads |-> DefaultState]
    /\ br_pc = [t \in FailureThreads |-> "start"]
    /\ br_local = [t \in FailureThreads |-> [state |-> 0, failures |-> 0]]

\* _get_state: if source not in self._states
BrLookup(t) ==
    /\ br_pc[t] = "start"
    /\ br_pc' = [br_pc EXCEPT ![t] = IF br_states = 0 THEN "create" ELSE "fetch"]
    /\ UNCHANGED <<br_states, br_dicts, br_local, outsideBreakerRace>>

\* _get_state: self._states[source] = {...}, a new dict
BrCreate(t) ==
    /\ br_pc[t] = "create"
    /\ br_states' = t
    /\ br_dicts' = [br_dicts EXCEPT ![t] = DefaultState]
    /\ br_pc' = [br_pc EXCEPT ![t] = "fetch"]
    /\ UNCHANGED <<br_local, outsideBreakerRace>>

\* _get_state: return self._states[source]
BrFetch(t) ==
    /\ br_pc[t] = "fetch"
    /\ br_local' = [br_local EXCEPT ![t].state = br_states]
    /\ br_pc' = [br_pc EXCEPT ![t] = "read"]
    /\ UNCHANGED <<br_states, br_dicts, outsideBreakerRace>>

\* state['failures'] += 1: the count is loaded
BrRead(t) ==
    /\ br_pc[t] = "read"
    /\ br_local' = [br_local EXCEPT ![t].failures = br_dicts[br_local[t].state].failures]
    /\ br_pc' = [br_pc EXCEPT ![t] = "write"]
    /\ UNCHANGED <<br_states, br_dicts, outsideBreakerRace>>

\* state['failures'] += 1: the sum is stored; last_failure_time is assigned
BrWrite(t) ==
    /\ br_pc[t] = "write"
    /\ br_dicts' = [br_dicts EXCEPT ![br_local[t].state].failures = br_local[t].failures + 1,
                                    ![br_local[t].state].last_failure_time = now]
    /\ br_pc' = [br_pc EXCEPT ![t] = "decide"]
    /\ UNCHANGED <<br_states, br_local, outsideBreakerRace>>

\* the state test and the threshold test of record_failure
BrDecide(t) ==
    LET e == br_dicts[br_local[t].state]
    IN  /\ br_pc[t] = "decide"
        /\ br_dicts' = [br_dicts EXCEPT ![br_local[t].state] =
               IF e.state = HALF_OPEN
               THEN [e EXCEPT !.state = OPEN, !.half_open_calls = 0]
               ELSE IF e.failures >= failure_threshold
                    THEN [e EXCEPT !.state = OPEN]
                    ELSE e]
        /\ br_pc' = [br_pc EXCEPT ![t] = "done"]
        /\ UNCHANGED <<br_states, br_local, outsideBreakerRace>>

NextBreakerRace ==
    \/ \E t \in FailureThreads : BrLookup(t)
    \/ \E t \in FailureThreads : BrCreate(t)
    \/ \E t \in FailureThreads : BrFetch(t)
    \/ \E t \in FailureThreads : BrRead(t)
    \/ \E t \in FailureThreads : BrWrite(t)
    \/ \E t \in FailureThreads : BrDecide(t)

(***************************************************************************)
(* Realtime quotes: data_provider/akshare_fetcher.py                       *)
(***************************************************************************)
Threads == {1, 2}
\* what _is_us_code / _is_hk_code / _is_etf_code make of the stock code
Markets == {"A", "HK", "ETF", "US"}
\* the `source` argument; "em" is its default
QuoteSources == {"em"}
\* _realtime_cache['ttl'] and its two siblings
cache_ttl == 1200

\* source_key = f"akshare_{source}" of get_realtime_quote
ConsultKey(source) == "akshare_" \o source

\* source_key of the method get_realtime_quote dispatches to
RecordKey(market) ==
    CASE market = "HK" -> "akshare_hk"
      [] market = "ETF" -> "akshare_etf"
      [] OTHER -> "akshare_em"

\* the module-level cache that method reads and writes
CacheOf(market) ==
    CASE market = "HK" -> "hk"
      [] market = "ETF" -> "etf"
      [] OTHER -> "realtime"

CacheNames == {"realtime", "etf", "hk"}

\* the refresh loop `for attempt in range(1, 3)` of the A-share and ETF paths;
\* the HK path calls upstream once
LastAttempt(market) == IF market = "HK" THEN 1 ELSE 2

QIdle == [pc |-> "idle", market |-> "A", source |-> "em", consulted |-> "",
          current_time |-> 0, attempt |-> 0, df |-> "none", ret |-> "none",
          failed |-> FALSE, after_failure |-> FALSE]

NoFailure == [cache |-> "none", timestamp |-> 0]

InitQuote ==
    /\ cache = [c \in CacheNames |-> [data |-> "none", timestamp |-> 0]]
    /\ q = [t \in Threads |-> QIdle]
    /\ q_started = 0
    /\ q_failed = NoFailure

\* get_realtime_quote up to the dispatch: the breaker is consulted under
\* akshare_<source>, then the code is routed by market
QStart(t, market, source) ==
    LET r == IsAvailable(cb_states, ConsultKey(source), now)
    IN  /\ q[t].pc = "idle"
        \* a request takes the first idle worker thread
        /\ \A u \in Threads : u < t => q[u].pc # "idle"
        /\ q_started < MaxRequests
        /\ q_started' = q_started + 1
        /\ cb_states' = r.states
        /\ q' = [q EXCEPT ![t] =
                  [QIdle EXCEPT !.market = market, !.source = source,
                                !.consulted = ConsultKey(source),
                                !.pc = IF r.ret /\ market # "US" THEN "check" ELSE "idle",
                                !.ret = IF r.ret THEN "none" ELSE "skipped"]]
        /\ UNCHANGED <<cache, q_failed, now, cb_call, cb_probes, cb_streak, cb_opened, outsideQuote>>

\* the cache check at the head of _get_*_realtime_quote
QCheck(t) ==
    LET c == cache[CacheOf(q[t].market)]
        hit == c.data # "none" /\ now - c.timestamp < cache_ttl
    IN  /\ q[t].pc = "check"
        /\ q' = [q EXCEPT ![t].current_time = now,
                          \* history: the last failed refresh was of this cache
                          \* and began less than ttl before this check
                          ![t].after_failure =
                              /\ q_failed.cache = CacheOf(q[t].market)
                              /\ now - q_failed.timestamp < cache_ttl,
                          ![t].df = IF hit THEN c.data ELSE "none",
                          ![t].attempt = IF hit THEN 0 ELSE 1,
                          ![t].pc = IF hit THEN "lookup" ELSE "call"]
        /\ UNCHANGED <<cache, q_started, q_failed, now, cbVars, outsideQuote>>

\* _enforce_rate_limit has slept; the upstream bulk call is issued
QApiBegin(t) ==
    /\ q[t].pc = "call"
    /\ q' = [q EXCEPT ![t].pc = "in_api"]
    /\ UNCHANGED <<cache, q_started, q_failed, now, cbVars, outsideQuote>>

\* the upstream call returns a frame: record_success under the method's key
QApiReturn(t, frame) ==
    /\ q[t].pc = "in_api"
    /\ cb_states' = RecordSuccess(cb_states, RecordKey(q[t].market))
    /\ q' = [q EXCEPT ![t].df = frame, ![t].pc = "store_data"]
    /\ UNCHANGED <<cache, q_started, q_failed, now, cb_call, cb_probes, cb_streak, cb_opened, outsideQuote>>

\* the upstream call raises
QApiRaise(t) ==
    /\ q[t].pc = "in_api"
    /\ IF q[t].market = "HK"
       THEN \* no retry loop: the outer except records the failure, returns None
            /\ cb_states' = RecordFailure(cb_states, RecordKey("HK"), now)
            /\ q_failed' = [cache |-> "hk", timestamp |-> q[t].current_time]
            /\ q' = [q EXCEPT ![t] = QIdle]
       ELSE /\ cb_states' = cb_states
            /\ q_failed' = q_failed
            /\ q' = [q EXCEPT ![t].attempt = @ + 1,
                              ![t].pc = IF q[t].attempt < LastAttempt(q[t].market)
                                        THEN "call" ELSE "store_data"]
    /\ UNCHANGED <<cache, q_started, now, cb_call, cb_probes, cb_streak, cb_opened, outsideQuote>>

\* after the loop: a refresh that failed to the end records one failure and
\* caches an empty frame; then cache['data'] = df
QStoreData(t) ==
    LET failed == q[t].df = "none"
        df == IF failed THEN "empty" ELSE q[t].df
    IN  /\ q[t].pc = "store_data"
        /\ cb_states' = IF failed
                        THEN RecordFailure(cb_states, RecordKey(q[t].market), now)
                        ELSE cb_states
        /\ cache' = [cache EXCEPT ![CacheOf(q[t].market)].data = df]
        /\ q' = [q EXCEPT ![t].df = df, ![t].failed = failed, ![t].pc = "store_ts"]
        /\ UNCHANGED <<q_started, q_failed, now, cb_call, cb_probes, cb_streak, cb_opened, outsideQuote>>

\* cache['timestamp'] = current_time (the time read before the refresh)
QStoreTs(t) ==
    /\ q[t].pc = "store_ts"
    /\ cache' = [cache EXCEPT ![CacheOf(q[t].market)].timestamp = q[t].current_time]
    /\ q_failed' = IF q[t].failed
                   THEN [cache |-> CacheOf(q[t].market), timestamp |-> q[t].current_time]
                   ELSE q_failed
    /\ q' = [q EXCEPT ![t].pc = "lookup"]
    /\ UNCHANGED <<q_started, now, cbVars, outsideQuote>>

\* the row lookup: an empty frame or an unknown code gives None, a frame
\* without the expected columns raises into the outer except
QLookup(t, found) ==
    /\ q[t].pc = "lookup"
    /\ IF q[t].df = "bad"
       THEN /\ cb_states' = RecordFailure(cb_states, RecordKey(q[t].market), now)
            /\ q' = [q EXCEPT ![t] = QIdle]
       ELSE /\ cb_states' = cb_states
            /\ q' = [q EXCEPT ![t] =
                        [QIdle EXCEPT !.ret = IF q[t].df = "full" /\ found
                                              THEN "quote" ELSE "none"]]
    /\ UNCHANGED <<cache, q_started, q_failed, now, cb_call, cb_probes, cb_streak, cb_opened, outsideQuote>>

QuoteTick ==
    /\ now < StartTime + MaxQuoteTicks * QuoteTimeStep
    /\ now' = now + QuoteTimeStep
    /\ UNCHANGED <<cbVars, qVars, outsideQuote>>

NextQuote ==
    \/ QuoteTick
    \/ \E t \in Threads, m \in Markets, s \in QuoteSources : QStart(t, m, s)
    \/ \E t \in Threads : QCheck(t)
    \/ \E t \in Threads : QApiBegin(t)
    \/ \E t \in Threads, f \in {"full", "empty", "bad"} : QApiReturn(t, f)
    \/ \E t \in Threads : QApiRaise(t)
    \/ \E t \in Threads : QStoreData(t)
    \/ \E t \in Threads : QStoreTs(t)
    \/ \E t \in Threads, found \in BOOLEAN : QLookup(t, found)

(***************************************************************************)
(* Expert panel: src/core/expert_panel.py, _run_single_model               *)
(***************************************************************************)
EndpointIds == {"primary", "backup"}
Priorities == {5, 10}
\* a ModelEndpoint, reduced to the fields _run_single_model branches on
Endpoints == [id : EndpointIds, priority : Priorities, enabled : BOOLEAN]
\* model_config.endpoints
EndpointLists == UNION {[1..n -> Endpoints] : n \in 0..MaxEndpoints}

\* a text is kept as its leading words and its length in characters
\* text[:n]
Prefix(text, n) == [text EXCEPT !.len = IF @ > n THEN n ELSE @]

\* str(error_text)[:200] and error_text[:200] of a failed ModelResult
ErrorLimit == 200
\* str(e)[:400] of a caught exception
ExceptionLimit == 400

\* error texts an analyzer reports or raises: a short one of each class and
\* one that carries a long upstream body
ShortSwitchable == [head |-> "503 service unavailable", len |-> 23]
ShortTerminal == [head |-> "invalid response", len |-> 16]
LongSwitchable == [head |-> "503 service unavailable", len |-> LongLen]
\* error_text when analyzer.is_available() is False
UnavailableText == [head |-> "analyzer unavailable", len |-> 20]
\* the text an outcome without an error carries
NoText == [head |-> "", len |-> 0]
\* what one endpoint does when it is tried: analyzer.is_available() is False,
\* analyze() returns a successful result, analyze() returns a failed result
\* with error_message text, or an exception with that text is raised
Outcomes ==
    {[kind |-> "unavailable", text |-> NoText],
     [kind |-> "success", text |-> NoText],
     [kind |-> "result_error", text |-> ShortSwitchable],
     [kind |-> "result_error", text |-> ShortTerminal],
     [kind |-> "exception", text |-> LongSwitchable],
     [kind |-> "exception", text |-> ShortTerminal]}

\* the texts that carry one of the markers 401/403/429, 5xx, timeout,
\* connect, network, ssl
_is_endpoint_switchable_error(error_text) ==
    error_text.head \in {"503 service unavailable"}

None == "None"

\* [endpoint for endpoint in model_config.endpoints if endpoint.enabled]
EnabledEndpoints(eps) == SelectSeq(eps, LAMBDA e : e.enabled)

\* one insertion of the stable sort: e goes behind every element whose
\* priority is at least its own
InsertByPriority(sorted, e) ==
    LET k == Cardinality({i \in 1..Len(sorted) : sorted[i].priority >= e.priority})
    IN  SubSeq(sorted, 1, k) \o <<e>> \o SubSeq(sorted, k + 1, Len(sorted))

\* sorted(..., key=lambda item: item.priority, reverse=True): descending and
\* stable, equal priorities keep their configured order
RECURSIVE SortEndpoints(_)
SortEndpoints(eps) ==
    IF eps = <<>> THEN <<>>
    ELSE InsertByPriority(SortEndpoints(SubSeq(eps, 1, Len(eps) - 1)), eps[Len(eps)])

SuccessResultLenCount(endpoint_tried, endpoint, index) ==
    [success |-> TRUE, error |-> None, endpoint_tried |-> endpoint_tried,
     endpoint_used |-> endpoint.id, fallback_count |-> Len(endpoint_tried)]

\* the ModelResult returned when analyze() succeeds on endpoints[index]
SuccessResult(endpoint_tried, endpoint, index) ==
    [success |-> TRUE, error |-> None, endpoint_tried |-> endpoint_tried,
     endpoint_used |-> endpoint.id, fallback_count |-> index]

\* the ModelResult returned on an error that is not switchable
TerminalResult(endpoint_tried, endpoint, index, error_text) ==
    [success |-> FALSE, error |-> Prefix(error_text, ErrorLimit),
     endpoint_tried |-> endpoint_tried,
     endpoint_used |-> endpoint.id, fallback_count |-> index]

ExhaustedResultUsedLast(endpoint_tried, last_error) ==
    [success |-> FALSE, error |-> Prefix(last_error, ErrorLimit),
     endpoint_tried |-> endpoint_tried,
     endpoint_used |-> endpoint_tried[Len(endpoint_tried)],
     fallback_count |-> IF Len(endpoint_tried) - 1 > 0 THEN Len(endpoint_tried) - 1 ELSE 0]

\* the ModelResult returned after the loop ran out of endpoints; last_error
\* is set by every endpoint that did not return, so `or` never takes its default
ExhaustedResult(endpoint_tried, last_error) ==
    [success |-> FALSE, error |-> Prefix(last_error, ErrorLimit),
     endpoint_tried |-> endpoint_tried,
     endpoint_used |-> None,
     fallback_count |-> IF Len(endpoint_tried) - 1 > 0 THEN Len(endpoint_tried) - 1 ELSE 0]

\* the ModelResult returned when no endpoint is enabled
NoEndpointResult ==
    [success |-> FALSE, error |-> [head |-> "no endpoint", len |-> 11],
     endpoint_tried |-> <<>>,
     endpoint_used |-> None, fallback_count |-> 0]

\* the loop `for index, endpoint in enumerate(endpoints)` from position i
\* (index = i - 1), outs[i] being what endpoints[i] does
RECURSIVE RunEndpoints(_, _, _, _, _)
RunEndpoints(endpoints, outs, i, endpoint_tried, last_error) ==
    IF i > Len(endpoints)
    THEN ExhaustedResult(endpoint_tried, last_error)
    ELSE LET endpoint == endpoints[i]
             tried == Append(endpoint_tried, endpoint.id)
             o == outs[i]
             \* result.error_message, or str(e)[:400] of an exception
             error_text == IF o.kind = "exception"
                           THEN Prefix(o.text, ExceptionLimit) ELSE o.text
         IN  CASE o.kind = "unavailable" ->
                    RunEndpoints(endpoints, outs, i + 1, tried, UnavailableText)
               [] o.kind = "success" ->
                    SuccessResult(tried, endpoint, i - 1)
               [] OTHER ->
                    IF _is_endpoint_switchable_error(error_text)
                    THEN RunEndpoints(endpoints, outs, i + 1, tried, error_text)
                    ELSE TerminalResult(tried, endpoint, i - 1, error_text)

_run_single_model(model_endpoints, outs) ==
    LET endpoints == SortEndpoints(EnabledEndpoints(model_endpoints))
    IN  IF endpoints = <<>>
        THEN NoEndpointResult
        ELSE RunEndpoints(endpoints, outs, 1, <<>>, NoText)

InitPanel ==
    /\ panel_pc = "idle"
    /\ panel_cfg = <<>>
    /\ panel_outs = <<>>
    /\ panel_res = NoEndpointResult

\* one call of _run_single_model on a configured logical model
PanelRun ==
    /\ panel_pc = "idle"
    /\ \E eps \in EndpointLists :
         \E outs \in [1..Len(EnabledEndpoints(eps)) -> Outcomes] :
            /\ panel_cfg' = eps
            /\ panel_outs' = outs
            /\ panel_res' = _run_single_model(eps, outs)
    /\ panel_pc' = "done"
    /\ UNCHANGED outsidePanel

\* the caller drops the result; the next model of the panel is run
PanelNext ==
    /\ panel_pc = "done"
    /\ panel_pc' = "idle"
    /\ panel_cfg' = <<>>
    /\ panel_outs' = <<>>
    /\ panel_res' = NoEndpointResult
    /\ UNCHANGED outsidePanel

NextPanel ==
    \/ PanelRun
    \/ PanelNext

(***************************************************************************)
(* Expert panel: src/core/expert_panel.py, run_expert_panel and            *)
(* _compute_consensus                                                      *)
(***************************************************************************)
\* the names of the configured logical models, in configuration order
ConfigNames == <<"model_a", "model_b", "model_c", "model_d">>

\* ModelResult.score is Optional[int]: NoScore stands for None
NoScore == -1
Scores == {60, 61}
Advices == {"buy", "hold"}
\* consensus advice when nothing contributes, and when no contributing result
\* carries an advice
InsufficientData == "insufficient data"
WaitAndSee == "wait and see"

\* raw_result, reduced to what _compute_consensus reads: None, a dashboard
\* without the key battle_plan, a battle_plan without sniper_points, or a
\* battle_plan with sniper_points
RawResults == {None, "dashboard", "battle_plan", "points_a", "points_b"}
HasDashboard(raw_result) == raw_result # None
HasBattlePlan(raw_result) == raw_result \in {"battle_plan", "points_a", "points_b"}
\* raw_result["dashboard"]["battle_plan"].get("sniper_points")
SniperPoints(raw_result) ==
    IF raw_result \in {"points_a", "points_b"} THEN raw_result ELSE None

\* a failed result that does not carry the name of its model
FailedResultUnnamed(model_name) ==
    [model_name |-> None, success |-> FALSE, score |-> NoScore,
     advice |-> None, raw_result |-> None]

\* the ModelResult of a worker whose model failed, raised or timed out
FailedResult(model_name) ==
    [model_name |-> model_name, success |-> FALSE, score |-> NoScore,
     advice |-> None, raw_result |-> None]

\* the ModelResults a worker can produce, reduced to the fields the panel
\* reads: a failure, a success without a score, and the scored successes
WorkerResults(model_name) ==
    {FailedResult(model_name),
     [model_name |-> model_name, success |-> TRUE, score |-> NoScore,
      advice |-> "buy", raw_result |-> "points_a"]}
    \cup [model_name : {model_name}, success : {TRUE},
          score : Scores, advice : Advices \cup {None},
          raw_result : RawResults]

RECURSIVE SumScores(_)
SumScores(results) ==
    IF results = <<>> THEN 0 ELSE results[1].score + SumScores(Tail(results))

\* round(a / b) of Python 3 for a >= 0, b > 0: to the nearest integer, a half
\* to the even one
Round(a, b) ==
    LET quo == a \div b
        rem == a % b
    IN  IF 2 * rem < b THEN quo
        ELSE IF 2 * rem > b THEN quo + 1
        ELSE IF quo % 2 = 0 THEN quo ELSE quo + 1

\* advice_counts[advice] after the loop
AdviceCount(successful, advice) ==
    Cardinality({i \in 1..Len(successful) : successful[i].advice = advice})

TopAdviceNone(successful) == WaitAndSee

\* max(advice_counts, key=advice_counts.get): the first key, in the order the
\* keys were inserted, among those with the largest count
TopAdvice(successful) ==
    LET counted == {i \in 1..Len(successful) : successful[i].advice # None}
        best == {i \in counted :
                    \A j \in counted :
                        AdviceCount(successful, successful[j].advice)
                            <= AdviceCount(successful, successful[i].advice)}
    IN  IF counted = {} THEN WaitAndSee
        ELSE successful[CHOOSE i \in best : \A j \in best : i <= j].advice

\* max(matching_models, key=lambda x: x.score or 0): the first of the largest
BestModel(matching_models) ==
    LET best == {i \in 1..Len(matching_models) :
                    \A j \in 1..Len(matching_models) :
                        matching_models[j].score <= matching_models[i].score}
    IN  matching_models[CHOOSE i \in best : \A j \in best : i <= j]

EmptyConsensusWait ==
    [raised |-> FALSE, score |-> NoScore, advice |-> WaitAndSee,
     strategy |-> None]

\* the consensus when no result is both successful and scored
EmptyConsensus ==
    [raised |-> FALSE, score |-> NoScore, advice |-> InsufficientData,
     strategy |-> None]

\* consensus_strategy; "raised" when the best matching model's dashboard has
\* no battle_plan to subscript
ConsensusStrategy(successful, top_advice) ==
    LET with_points == SelectSeq(successful, LAMBDA r : SniperPoints(r.raw_result) # None)
        matching_models == SelectSeq(successful,
                              LAMBDA r : r.advice = top_advice /\ HasDashboard(r.raw_result))
    IN  IF with_points = <<>> THEN None
        ELSE IF matching_models # <<>> /\ ~HasBattlePlan(BestModel(matching_models).raw_result)
        THEN "raised"
        ELSE IF matching_models # <<>>
                /\ SniperPoints(BestModel(matching_models).raw_result) # None
        THEN SniperPoints(BestModel(matching_models).raw_result)
        ELSE SniperPoints(with_points[1].raw_result)

\* the dict _compute_consensus returns (summary, a display string, left out),
\* or raised = TRUE when it leaves with an exception
_compute_consensus(results) ==
    LET successful == SelectSeq(results, LAMBDA r : r.success /\ r.score # NoScore)
        top_advice == TopAdvice(successful)
        strategy == ConsensusStrategy(successful, top_advice)
    IN  IF successful = <<>> THEN EmptyConsensus
        ELSE [raised |-> strategy = "raised",
              score |-> Round(SumScores(successful), Len(successful)),
              advice |-> top_advice,
              strategy |-> IF strategy = "raised" THEN None ELSE strategy]

\* the selected_models lists callers pass: None, two names in an order of
\* their own, one name
SelectedLists == {<<>>, <<"model_b", "model_a">>, <<"model_b">>}

\* the names of configs after the selection: the configured names the
\* caller's list contains, in configuration order; all of them when the list
\* is empty or names no configured model
SelectConfigs(all_names, selected_models) ==
    LET chosen == SelectSeq(all_names,
                     LAMBDA name : \E i \in 1..Len(selected_models) :
                                      selected_models[i] = name)
    IN  IF selected_models = <<>> \/ chosen = <<>> THEN all_names ELSE chosen

SortResultsKeepsOrder(results, model_names) == results

\* model_names.index(r.model_name), 999 for a name that is not in the list
NameIndex(model_names, model_name) ==
    IF \E i \in 1..Len(model_names) : model_names[i] = model_name
    THEN CHOOSE i \in 1..Len(model_names) :
            /\ model_names[i] = model_name
            /\ \A j \in 1..i - 1 : model_names[j] # model_name
    ELSE 999

\* model_results.sort(key=...): ascending and stable
RECURSIVE SortResults(_, _)
SortResults(results, model_names) ==
    IF results = <<>> THEN <<>>
    ELSE LET sorted == SortResults(SubSeq(results, 1, Len(results) - 1), model_names)
             r == results[Len(results)]
             k == Cardinality({i \in 1..Len(sorted) :
                     NameIndex(model_names, sorted[i].model_name)
                         <= NameIndex(model_names, r.model_name)})
         IN  SubSeq(sorted, 1, k) \o <<r>> \o SubSeq(sorted, k + 1, Len(sorted))

\* ExpertPanelResult with the dataclass defaults, returned when no model is
\* configured
NoPanel ==
    [returned |-> TRUE, models_used |-> <<>>, consensus_score |-> NoScore,
     consensus_advice |-> None, consensus_strategy |-> None]

InitExpertPanel ==
    /\ ep_pc = "idle"
    /\ ep_selected = <<>>
    /\ ep_names = <<>>
    /\ ep_reordered = FALSE
    /\ ep_results = <<>>
    /\ ep_out = NoPanel

\* run_expert_panel, with n models configured, up to the submission of one
\* worker per selected config; with no config at all it returns at once
EpStart(n, selected_models) ==
    /\ ep_pc = "idle"
    /\ ep_selected' = selected_models
    /\ ep_names' = SelectConfigs(SubSeq(ConfigNames, 1, n), selected_models)
    /\ ep_reordered' = FALSE
    /\ ep_results' = <<>>
    /\ ep_out' = NoPanel
    /\ ep_pc' = IF n = 0 THEN "done" ELSE "running"
    /\ UNCHANGED outsideExpertPanel

\* as_completed yields the future of one model: its result, or a failed
\* result in place of its exception, is appended
EpWorkerDone(i, result) ==
    /\ ep_pc = "running"
    /\ i \in 1..Len(ep_names)
    /\ \A k \in 1..Len(ep_results) : ep_results[k].model_name # ep_names[i]
    /\ result \in WorkerResults(ep_names[i])
    /\ ep_results' = Append(ep_results, result)
    /\ UNCHANGED <<ep_pc, ep_selected, ep_names, ep_reordered, ep_out, outsideExpertPanel>>

\* all futures are in: sort, compute the consensus, build the result
EpFinish ==
    LET sorted == SortResults(ep_results, ep_names)
        consensus == _compute_consensus(sorted)
    IN  /\ ep_pc = "running"
        /\ Len(ep_results) = Len(ep_names)
        /\ ep_results' = sorted
        /\ ep_reordered' = (sorted # ep_results)
        /\ ep_out' = IF consensus.raised
                     THEN [NoPanel EXCEPT !.returned = FALSE]
                     ELSE [returned |-> TRUE,
                           models_used |-> ep_names,
                           consensus_score |-> consensus.score,
                           consensus_advice |-> consensus.advice,
                           consensus_strategy |-> consensus.strategy]
        /\ ep_pc' = "done"
        /\ UNCHANGED <<ep_selected, ep_names, outsideExpertPanel>>

\* the caller has the result; the next panel run may start
EpReturn ==
    /\ ep_pc = "done"
    /\ ep_pc' = "idle"
    /\ ep_selected' = <<>>
    /\ ep_names' = <<>>
    /\ ep_reordered' = FALSE
    /\ ep_results' = <<>>
    /\ ep_out' = NoPanel
    /\ UNCHANGED outsideExpertPanel

NextExpertPanel ==
    \/ \E n \in 0..MaxModels, selected_models \in SelectedLists :
         EpStart(n, selected_models)
    \/ \E i \in 1..Len(ep_names) : \E r \in WorkerResults(ep_names[i]) : EpWorkerDone(i, r)
    \/ EpFinish
    \/ EpReturn

(***************************************************************************)
(* Task service: src/services/task_service.py, class TaskService           *)
(***************************************************************************)
StockCodes == {"600519", "000001"}
\* TaskService(max_workers=3)
max_workers == 3

\* task_id = f"{code}_{datetime.now().strftime('%Y%m%d_%H%M%S_%f')}": the code
\* and the clock reading, to the microsecond
TaskId(code, reading) == <<code, reading>>

\* what pipeline.process_single_stock does: returns a result, returns an
\* empty result, or raises
RunOutcomes == {"result", "empty", "exception"}

\* the status _run_analysis stores for each of them
FinalStatus(outcome) == IF outcome = "result" THEN "completed" ELSE "failed"

\* the history of a task id after its record was written with this status
Seen(seen, task_id, status) ==
    IF task_id \in DOMAIN seen
    THEN IF seen[task_id][Len(seen[task_id])] = status
         THEN seen
         ELSE [seen EXCEPT ![task_id] = Append(@, status)]
    ELSE [k \in DOMAIN seen \cup {task_id} |->
            IF k = task_id THEN <<status>> ELSE seen[k]]

\* dict assignment self._tasks[task_id] = record
PutTask(tasks, task_id, record) ==
    [k \in DOMAIN tasks \cup {task_id} |-> IF k = task_id THEN record ELSE tasks[k]]

InitTaskService ==
    /\ ts_clock = 0
    /\ ts_jobs = <<>>
    /\ ts_tasks = <<>>
    /\ ts_seen = <<>>

\* the reading of datetime.now() changes
TsClockTick ==
    /\ ts_clock < MaxClock
    /\ ts_clock' = ts_clock + 1
    /\ UNCHANGED <<ts_jobs, ts_tasks, ts_seen, outsideTaskService>>

\* submit_analysis: the task id is built from the clock, the work item is
\* handed to the executor, no record is written
submit_analysis(code) ==
    /\ Len(ts_jobs) < MaxSubmits
    /\ ts_jobs' = Append(ts_jobs, [code |-> code, task_id |-> TaskId(code, ts_clock),
                                   pc |-> "queued"])
    /\ UNCHANGED <<ts_clock, ts_tasks, ts_seen, outsideTaskService>>

\* a pool thread takes the oldest queued work item and _run_analysis writes
\* the record with status "running"
TsRunBegin(j) ==
    /\ ts_jobs[j].pc = "queued"
    /\ \A i \in 1..j - 1 : ts_jobs[i].pc # "queued"
    /\ Cardinality({i \in DOMAIN ts_jobs : ts_jobs[i].pc = "running"}) < max_workers
    /\ ts_jobs' = [ts_jobs EXCEPT ![j].pc = "running"]
    /\ ts_tasks' = PutTask(ts_tasks, ts_jobs[j].task_id,
                           [code |-> ts_jobs[j].code, status |-> "running"])
    /\ ts_seen' = Seen(ts_seen, ts_jobs[j].task_id, "running")
    /\ UNCHANGED <<ts_clock, outsideTaskService>>

\* the pipeline returns or raises and _run_analysis updates the record of
\* its task id
TsRunEnd(j, outcome) ==
    /\ ts_jobs[j].pc = "running"
    /\ ts_jobs' = [ts_jobs EXCEPT ![j].pc = "done"]
    /\ ts_tasks' = [ts_tasks EXCEPT ![ts_jobs[j].task_id].status = FinalStatus(outcome)]
    /\ ts_seen' = Seen(ts_seen, ts_jobs[j].task_id, FinalStatus(outcome))
    /\ UNCHANGED <<ts_clock, outsideTaskService>>

NextTaskService ==
    \/ TsClockTick
    \/ \E code \in StockCodes : submit_analysis(code)
    \/ \E j \in DOMAIN ts_jobs : TsRunBegin(j)
    \/ \E j \in DOMAIN ts_jobs, outcome \in RunOutcomes : TsRunEnd(j, outcome)

(***************************************************************************)
(* Task queue (src/services/task_queue.py, as the specification describes  *)
(* it) and its callers in api/v1/endpoints/analysis.py                     *)
(***************************************************************************)
Connections == {1}

\* a task is active while it is pending or processing
ActiveStatuses == {"pending", "processing"}

\* the ids of the tasks of the table that are active
ActiveTasks(tasks) == {id \in DOMAIN tasks : tasks[id].status \in ActiveStatuses}

\* event_queue = asyncio.Queue(): maxsize 0, which asyncio takes as no limit
event_queue_maxsize == 0

\* asyncio.Queue.full()
ChannelFull(events) == event_queue_maxsize > 0 /\ Len(events) >= event_queue_maxsize

\* the queue publishes an event: a non-blocking put on the channel of every
\* subscriber; on a full channel the event is dropped and counted
Publish(conns, subscribers, event) ==
    [c \in Connections |->
        IF c \in subscribers
        THEN IF ChannelFull(conns[c].event_queue)
             THEN [conns[c] EXCEPT !.dropped = @ + 1]
             ELSE [conns[c] EXCEPT !.event_queue = Append(@, event)]
        ELSE conns[c]]

submit_task_no_dedupe(stock_code) ==
    LET task_id == Len(tq_tasks) + 1
    IN  /\ tq_tasks' = Append(tq_tasks, [stock_code |-> stock_code, status |-> "pending",
                 connected |-> {c \in Connections : sse[c].pc \notin {"new", "closed"}}])
        /\ sse' = Publish(sse, tq_subscribers, [type |-> "task_created", task_id |-> task_id])
        /\ tq_resp' = [status_code |-> 202, stock_code |-> stock_code, task_id |-> task_id]

\* submit_task under the queue lock, and the response _handle_async_analysis
\* makes of it: duplicate_task (409) carrying the active task of that stock
\* code, else a new pending task, task_created published, 202
submit_task(stock_code) ==
    LET dup == {id \in ActiveTasks(tq_tasks) : tq_tasks[id].stock_code = stock_code}
        task_id == Len(tq_tasks) + 1
    IN  IF dup # {}
        THEN /\ tq_resp' = [status_code |-> 409, stock_code |-> stock_code,
                            task_id |-> CHOOSE id \in dup : TRUE]
             /\ UNCHANGED <<tq_tasks, sse>>
        ELSE /\ tq_tasks' = Append(tq_tasks, [stock_code |-> stock_code, status |-> "pending",
                 connected |-> {c \in Connections : sse[c].pc \notin {"new", "closed"}}])
             /\ sse' = Publish(sse, tq_subscribers, [type |-> "task_created", task_id |-> task_id])
             /\ tq_resp' = [status_code |-> 202, stock_code |-> stock_code, task_id |-> task_id]

HandleAsyncAnalysisAccepts(stock_code) ==
    /\ \/ Len(tq_tasks) < MaxTasks
       \/ \E id \in ActiveTasks(tq_tasks) : tq_tasks[id].stock_code = stock_code
    /\ submit_task_no_dedupe(stock_code)
    /\ UNCHANGED <<tq_subscribers, outsideQueue>>

\* POST /analyze with async_mode: _handle_async_analysis
HandleAsyncAnalysis(stock_code) ==
    /\ \/ Len(tq_tasks) < MaxTasks
       \/ \E id \in ActiveTasks(tq_tasks) : tq_tasks[id].stock_code = stock_code
    /\ submit_task(stock_code)
    /\ UNCHANGED <<tq_subscribers, outsideQueue>>

\* a worker takes the oldest pending task: processing, task_started published
WorkerStart(id) ==
    /\ tq_tasks[id].status = "pending"
    /\ \A i \in 1..id - 1 : tq_tasks[i].status # "pending"
    /\ Cardinality({i \in DOMAIN tq_tasks : tq_tasks[i].status = "processing"}) < QueueWorkers
    /\ tq_tasks' = [tq_tasks EXCEPT ![id].status = "processing"]
    /\ sse' = Publish(sse, tq_subscribers, [type |-> "task_started", task_id |-> id])
    /\ UNCHANGED <<tq_subscribers, tq_resp, outsideQueue>>

\* the orchestrator returns (completed) or raises (failed); the terminal
\* event is published
WorkerFinish(id, ok) ==
    /\ tq_tasks[id].status = "processing"
    /\ tq_tasks' = [tq_tasks EXCEPT ![id].status = IF ok THEN "completed" ELSE "failed"]
    /\ sse' = Publish(sse, tq_subscribers,
                      [type |-> IF ok THEN "task_completed" ELSE "task_failed", task_id |-> id])
    /\ UNCHANGED <<tq_subscribers, tq_resp, outsideQueue>>

\* list_pending_tasks(): the active tasks, oldest first
RECURSIVE PendingFrom(_, _)
PendingFrom(tasks, id) ==
    IF id > Len(tasks) THEN <<>>
    ELSE (IF tasks[id].status \in ActiveStatuses THEN <<id>> ELSE <<>>)
         \o PendingFrom(tasks, id + 1)

list_pending_tasks(tasks) == PendingFrom(tasks, 1)

NewConnection ==
    [pc |-> "new", pending_tasks |-> <<>>, event_queue |-> <<>>, sent |-> <<>>,
     heartbeats |-> 0, dropped |-> 0]

InitQueue ==
    /\ tq_tasks = <<>>
    /\ tq_subscribers = {}
    /\ tq_resp = [status_code |-> 0, stock_code |-> "", task_id |-> 0]
    /\ sse = [c \in Connections |-> NewConnection]

\* GET /tasks/stream, event_generator up to its first yield: `connected`
SseConnected(c) ==
    /\ sse[c].pc = "new"
    /\ \A d \in Connections : d < c => sse[d].pc # "new"
    /\ sse' = [sse EXCEPT ![c].pc = "connected",
                          ![c].sent = Append(@, [type |-> "connected", task_id |-> 0])]
    /\ UNCHANGED <<tq_tasks, tq_subscribers, tq_resp, outsideQueue>>

\* pending_tasks = task_queue.list_pending_tasks()
SseSnapshot(c) ==
    /\ sse[c].pc = "connected"
    /\ sse' = [sse EXCEPT ![c].pc = "replay",
                          ![c].pending_tasks = list_pending_tasks(tq_tasks)]
    /\ UNCHANGED <<tq_tasks, tq_subscribers, tq_resp, outsideQueue>>

\* the loop over the snapshot yields one task_created; after the last one
\* task_queue.subscribe(event_queue)
SseReplay(c) ==
    /\ sse[c].pc = "replay"
    /\ IF sse[c].pending_tasks # <<>>
       THEN /\ sse' = [sse EXCEPT
                         ![c].sent = Append(@, [type |-> "task_created",
                                                task_id |-> Head(sse[c].pending_tasks)]),
                         ![c].pending_tasks = Tail(@)]
            /\ UNCHANGED tq_subscribers
       ELSE /\ sse' = [sse EXCEPT ![c].pc = "streaming"]
            /\ tq_subscribers' = tq_subscribers \cup {c}
    /\ UNCHANGED <<tq_tasks, tq_resp, outsideQueue>>

\* event = await event_queue.get(); yield it
SseForward(c) ==
    /\ sse[c].pc = "streaming"
    /\ sse[c].event_queue # <<>>
    /\ sse' = [sse EXCEPT ![c].sent = Append(@, Head(sse[c].event_queue)),
                          ![c].event_queue = Tail(@)]
    /\ UNCHANGED <<tq_tasks, tq_subscribers, tq_resp, outsideQueue>>

\* 30 s without an event: yield heartbeat
SseHeartbeat(c) ==
    /\ sse[c].pc = "streaming"
    /\ sse[c].event_queue = <<>>
    /\ sse[c].heartbeats < MaxHeartbeats
    /\ sse' = [sse EXCEPT ![c].heartbeats = @ + 1]
    /\ UNCHANGED <<tq_tasks, tq_subscribers, tq_resp, outsideQueue>>

\* the client goes away: CancelledError, finally unsubscribe
SseDisconnect(c) ==
    /\ sse[c].pc = "streaming"
    /\ sse' = [sse EXCEPT ![c] = [NewConnection EXCEPT !.pc = "closed"]]
    /\ tq_subscribers' = tq_subscribers \ {c}
    /\ UNCHANGED <<tq_tasks, tq_resp, outsideQueue>>

NextQueue ==
    \/ \E code \in StockCodes : HandleAsyncAnalysis(code)
    \/ \E id \in DOMAIN tq_tasks : WorkerStart(id)
    \/ \E id \in DOMAIN tq_tasks, ok \in BOOLEAN : WorkerFinish(id, ok)
    \/ \E c \in Connections : SseConnected(c)
    \/ \E c \in Connections : SseSnapshot(c)
    \/ \E c \in Connections : SseReplay(c)
    \/ \E c \in Connections : SseForward(c)
    \/ \E c \in Connections : SseHeartbeat(c)
    \/ \E c \in Connections : SseDisconnect(c)

(***************************************************************************)
(* Runtime configuration: src/services/system_config_service.py,           *)
(* src/core/config_manager.py, src/core/config_registry.py                 *)
(***************************************************************************)
\* the server threads that run update
Clients == {1}
ConfigKeys == {"GEMINI_API_KEY", "STOCK_LIST"}
\* the default mask_token of update
MaskToken == "******"

\* the values a client submits for each key
SubmittedValues(key) ==
    IF key = "GEMINI_API_KEY"
    THEN {"", MaskToken, "secret-key-value"}
    ELSE {"", "\n", "600519,300750", "'600519'", "600519\n300750"}

\* one item of an update, and the item lists of a request
ConfigItems ==
    UNION {[key : {k}, value : SubmittedValues(k)] : k \in ConfigKeys}

ItemLists == UNION {[1..n -> ConfigItems] : n \in 0..MaxItems}

\* _FIELD_DEFINITIONS[key]["is_sensitive"]
is_sensitive(key) == key = "GEMINI_API_KEY"

\* dotenv_values on the text of a line: surrounding quotes are stripped
DotenvValue(text) == IF text = "'600519'" THEN "600519" ELSE text

\* value.replace("\n", "") of _atomic_upsert
RemoveNewlines(value) ==
    IF value = "600519\n300750" THEN "600519300750"
    ELSE IF value = "\n" THEN "" ELSE value

\* "\n" in value
HasNewline(value) == value \in {"600519\n300750", "\n"}

\* not value.strip()
IsBlank(value) == value \in {"", "\n"}

\* ConfigManager.read_config_map
read_config_map(file) == [k \in ConfigKeys |-> DotenvValue(file.lines[k])]

GetConfigVersionMtimeOnly(file) == [mtime |-> file.mtime, content |-> [k \in ConfigKeys |-> ""]]

\* ConfigManager.get_config_version: f"{st_mtime_ns}:{sha256(content)}", the
\* digest standing for the content it was computed from
get_config_version(file) == [mtime |-> file.mtime, content |-> file.lines]

\* the .env file the service starts with
InitialFile ==
    [mtime |-> 0,
     lines |-> [k \in ConfigKeys |->
                  IF k = "GEMINI_API_KEY" THEN "secret-key-value" ELSE "600519,000001"]]

\* a version string no state of the file has
StaleVersion == [mtime |-> 0 - 1, content |-> InitialFile.lines]

\* _validate_value for a string or array field that is not required: blank
\* values pass, values with a newline are errors
ValueHasError(key, value) == ~IsBlank(value) /\ HasNewline(value)

\* the issue list _collect_issues builds, as the keys of its issues in order
RECURSIVE CollectIssues(_, _, _, _)
CollectIssues(current_map, items, mask_token, i) ==
    IF i > Len(items) THEN <<>>
    ELSE (IF /\ ~(is_sensitive(items[i].key) /\ items[i].value = mask_token
                  /\ current_map[items[i].key] # "")
             /\ ValueHasError(items[i].key, items[i].value)
          THEN <<items[i].key>> ELSE <<>>)
         \o CollectIssues(current_map, items, mask_token, i + 1)

HasErrorsNever(current_map, items, mask_token) == FALSE

\* _collect_issues: some item that is not a masked sensitive key with a
\* stored value has a value error
HasErrors(current_map, items, mask_token) ==
    \E i \in 1..Len(items) :
        /\ ~(is_sensitive(items[i].key) /\ items[i].value = mask_token
             /\ current_map[items[i].key] # "")
        /\ ValueHasError(items[i].key, items[i].value)

VersionConflictNever(current_version, config_version) == FALSE

\* the version check of update: current_version != config_version
VersionConflict(current_version, config_version) == current_version # config_version

IsMaskedSkipNever(key, value, sensitive_keys, mask_token) == FALSE

\* key_upper in sensitive_keys and value == mask_token
IsMaskedSkip(key, value, sensitive_keys, mask_token) ==
    key \in sensitive_keys /\ value = mask_token

\* the loop of apply_updates over items[i..]: mutable_updates as the keys in
\* insertion order (keys) and their values (values), and skipped_masked
RECURSIVE ApplyLoop(_, _, _, _, _, _, _, _)
ApplyLoop(updates, i, current_values, sensitive_keys, mask_token, keys, values, skipped) ==
    IF i > Len(updates)
    THEN [keys |-> keys, values |-> values, skipped_masked |-> skipped]
    ELSE LET key == updates[i].key
             value == updates[i].value
         IN  IF IsMaskedSkip(key, value, sensitive_keys, mask_token)
             THEN ApplyLoop(updates, i + 1, current_values, sensitive_keys, mask_token,
                            keys, values,
                            IF current_values[key] # "" THEN Append(skipped, key) ELSE skipped)
             ELSE IF current_values[key] = value
             THEN ApplyLoop(updates, i + 1, current_values, sensitive_keys, mask_token,
                            keys, values, skipped)
             ELSE ApplyLoop(updates, i + 1, current_values, sensitive_keys, mask_token,
                            IF \E j \in 1..Len(keys) : keys[j] = key THEN keys
                            ELSE Append(keys, key),
                            [values EXCEPT ![key] = value], skipped)

\* _atomic_upsert: the lines of the updated keys are replaced
AtomicUpsert(lines, keys, values) ==
    [k \in ConfigKeys |->
        IF \E j \in 1..Len(keys) : keys[j] = k THEN RemoveNewlines(values[k]) ELSE lines[k]]

ApplyUpdatesAlwaysWrites(file, updates, sensitive_keys, mask_token, mtime) ==
    LET r == ApplyLoop(updates, 1, read_config_map(file), sensitive_keys, mask_token,
                       <<>>, [k \in ConfigKeys |-> ""], <<>>)
        written == [mtime |-> mtime, lines |-> AtomicUpsert(file.lines, r.keys, r.values)]
    IN  [updated_keys |-> r.keys, skipped_masked |-> r.skipped_masked,
         file |-> written, new_version |-> get_config_version(written)]

\* ConfigManager.apply_updates on the file, the file being rewritten at
\* time mtime when something is to be written
apply_updates(file, updates, sensitive_keys, mask_token, mtime) ==
    LET r == ApplyLoop(updates, 1, read_config_map(file), sensitive_keys, mask_token,
                       <<>>, [k \in ConfigKeys |-> ""], <<>>)
        written == IF r.keys # <<>>
                   THEN [mtime |-> mtime, lines |-> AtomicUpsert(file.lines, r.keys, r.values)]
                   ELSE file
    IN  [updated_keys |-> r.keys, skipped_masked |-> r.skipped_masked,
         file |-> written, new_version |-> get_config_version(written)]

\* db.set_system_config(key, value): the row of key holds value afterwards
set_system_config(rows, key, value) == [rows EXCEPT ![key] = value]

\* DbBackend.get_config_version: "db:" and 16 hex digits of the sha256 of the
\* sorted rows, the digest standing for the rows it was computed from; the
\* version has no time component
DbGetConfigVersion(file) == [mtime |-> 0, content |-> file.lines]

\* the body of the loop of DbBackend.apply_updates for one item: acc holds
\* the rows, updated_keys and skipped_masked so far, current_values the
\* rows read before the loop
DbApplyItem(update, current_values, sensitive_keys, mask_token, acc) ==
    IF IsMaskedSkip(update.key, update.value, sensitive_keys, mask_token)
    THEN IF current_values[update.key] # ""
         THEN [acc EXCEPT !.skipped_masked = Append(@, update.key)]
         ELSE acc
    ELSE IF current_values[update.key] = update.value
    THEN acc
    ELSE [acc EXCEPT !.rows = set_system_config(@, update.key, update.value),
                     !.updated_keys = Append(@, update.key)]

RECURSIVE DbApplyLoop(_, _, _, _, _, _)
DbApplyLoop(updates, i, current_values, sensitive_keys, mask_token, acc) ==
    IF i > Len(updates) THEN acc
    ELSE DbApplyLoop(updates, i + 1, current_values, sensitive_keys, mask_token,
                     DbApplyItem(updates[i], current_values, sensitive_keys, mask_token, acc))

\* DbBackend.apply_updates on the table
DbApplyUpdates(file, updates, sensitive_keys, mask_token) ==
    LET r == DbApplyLoop(updates, 1, file.lines, sensitive_keys, mask_token,
                         [rows |-> file.lines, updated_keys |-> <<>>,
                          skipped_masked |-> <<>>])
        written == [file EXCEPT !.lines = r.rows]
    IN  [updated_keys |-> r.updated_keys, skipped_masked |-> r.skipped_masked,
         file |-> written, new_version |-> DbGetConfigVersion(written)]

\* self._backend.read_config_map(), .get_config_version() and
\* .apply_updates(...) of the service, for the backend it holds
BackendRead(backend, file) ==
    IF backend = "db" THEN file.lines ELSE read_config_map(file)

BackendVersion(backend, file) ==
    IF backend = "db" THEN DbGetConfigVersion(file) ELSE get_config_version(file)

BackendApply(backend, file, updates, sensitive_keys, mask_token, mtime) ==
    IF backend = "db"
    THEN DbApplyUpdates(file, updates, sensitive_keys, mask_token)
    ELSE apply_updates(file, updates, sensitive_keys, mask_token, mtime)

NoUpdate ==
    [op |-> "none", config_version |-> StaleVersion, error_version |-> StaleVersion,
     items |-> <<>>, before |-> InitialFile, updated_keys |-> <<>>,
     skipped_masked |-> <<>>, issues |-> <<>>]

InitConfig ==
    /\ cfg_backend = "unset"
    /\ cfg_file = InitialFile
    /\ cfg_runtime = read_config_map(InitialFile)
    /\ cfg_pc = [c \in Clients |-> "idle"]
    /\ cfg_call = NoUpdate
    /\ cfg_written = FALSE

\* SystemConfigService.__init__: get_config_backend() picks the backend from
\* CONFIG_STORAGE_TYPE
ServiceInit(storage_type) ==
    /\ cfg_backend = "unset"
    /\ cfg_backend' = IF storage_type = "db" THEN "db" ELSE "env"
    /\ UNCHANGED <<cfg_file, cfg_runtime, cfg_pc, cfg_call, cfg_written, outsideConfig>>

\* update, first part: the backend's version is read and compared with
\* config_version; ConfigConflictError carries the backend's version
UpdateCheck(c, config_version) ==
    LET current_version == BackendVersion(cfg_backend, cfg_file)
        conflict == VersionConflict(current_version, config_version)
    IN  /\ cfg_backend # "unset"
        /\ cfg_pc[c] = "idle"
        /\ \A d \in Clients : d < c => cfg_pc[d] # "idle"
        /\ cfg_call' = [NoUpdate EXCEPT
                          !.op = IF conflict THEN "config_version_conflict" ELSE "checked",
                          !.config_version = config_version,
                          !.error_version = IF conflict THEN current_version ELSE StaleVersion,
                          !.before = cfg_file]
        /\ cfg_pc' = [cfg_pc EXCEPT ![c] = IF conflict THEN "idle" ELSE "validate"]
        /\ UNCHANGED <<cfg_backend, cfg_file, cfg_runtime, cfg_written, outsideConfig>>

\* update, second part: validation, then apply_updates under the manager's
\* lock, then the reload of the runtime configuration
UpdateApply(c, items, mtime) ==
    LET sensitive_keys == {items[i].key : i \in {j \in 1..Len(items) : is_sensitive(items[j].key)}}
        r == BackendApply(cfg_backend, cfg_file, items, sensitive_keys, MaskToken, mtime)
        invalid == HasErrors(BackendRead(cfg_backend, cfg_file), items, MaskToken)
    IN  /\ cfg_pc[c] = "validate"
        /\ cfg_pc' = [cfg_pc EXCEPT ![c] = "idle"]
        /\ IF invalid
           THEN /\ cfg_call' = [NoUpdate EXCEPT
                                  !.op = "validation_failed",
                                  !.items = items, !.before = cfg_file,
                                  !.issues = CollectIssues(BackendRead(cfg_backend, cfg_file),
                                                           items, MaskToken, 1)]
                /\ UNCHANGED <<cfg_file, cfg_runtime, cfg_written>>
           ELSE /\ cfg_call' = [NoUpdate EXCEPT !.op = "success",
                                                !.items = items, !.before = cfg_file,
                                                !.updated_keys = r.updated_keys,
                                                !.skipped_masked = r.skipped_masked]
                /\ cfg_file' = r.file
                /\ cfg_runtime' = BackendRead(cfg_backend, r.file)
                /\ cfg_written' = (cfg_written \/ r.file.lines # cfg_file.lines)
        /\ UNCHANGED <<cfg_backend, outsideConfig>>

\* the versions a client sends: the backend's, the one of the file the
\* service started with, or one of no file
NextConfig ==
    \/ \E storage_type \in {"env", "db"} : ServiceInit(storage_type)
    \/ \E c \in Clients :
         \E v \in {BackendVersion(cfg_backend, cfg_file),
                   BackendVersion(cfg_backend, InitialFile),
                   StaleVersion} : UpdateCheck(c, v)
    \/ \E c \in Clients, items \in ItemLists :
         \E mtime \in {m \in {cfg_file.mtime, cfg_file.mtime + 1} : m <= MaxMtime} :
            UpdateApply(c, items, mtime)

(***************************************************************************)
(* Two update calls on the db backend at the same time:                    *)
(* src/services/system_config_service.py, src/core/config_backend.py       *)
(***************************************************************************)
RaceThreads == {1, 2}

\* the item lists the two calls carry: valid values for one or two keys
RaceItemLists ==
    {<<[key |-> "GEMINI_API_KEY", value |-> ""],
       [key |-> "STOCK_LIST", value |-> "600519,300750"]>>,
     <<[key |-> "STOCK_LIST", value |-> ""]>>,
     <<[key |-> "GEMINI_API_KEY", value |-> ""]>>}

NoRaceCall ==
    [op |-> "none", config_version |-> StaleVersion, items |-> <<>>, i |-> 1,
     current_values |-> InitialFile.lines, updated_keys |-> <<>>,
     skipped_masked |-> <<>>, failed_key |-> "", new_version |-> StaleVersion]

InitRace ==
    /\ race_table = InitialFile
    /\ race_pc = [t \in RaceThreads |-> "idle"]
    /\ race_call = [t \in RaceThreads |-> NoRaceCall]

\* update, the version check: the table's version is read and compared
RaceUpdateCheck(t, config_version, items) ==
    LET conflict == VersionConflict(DbGetConfigVersion(race_table), config_version)
    IN  /\ race_pc[t] = "idle"
        /\ race_call' = [race_call EXCEPT ![t] =
               [NoRaceCall EXCEPT
                  !.op = IF conflict THEN "config_version_conflict" ELSE "checked",
                  !.config_version = config_version, !.items = items]]
        /\ race_pc' = [race_pc EXCEPT ![t] = IF conflict THEN "done" ELSE "validate"]
        /\ UNCHANGED <<race_table, outsideRace>>

\* update, validation, and the first line of DbBackend.apply_updates:
\* current_values = db.get_all_system_configs()
RaceApplyBegin(t) ==
    /\ race_pc[t] = "validate"
    /\ IF HasErrors(race_table.lines, race_call[t].items, MaskToken)
       THEN /\ race_call' = [race_call EXCEPT ![t].op = "validation_failed"]
            /\ race_pc' = [race_pc EXCEPT ![t] = "done"]
       ELSE /\ race_call' = [race_call EXCEPT ![t].current_values = race_table.lines]
            /\ race_pc' = [race_pc EXCEPT ![t] = "apply"]
    /\ UNCHANGED <<race_table, outsideRace>>

\* one pass of the loop of DbBackend.apply_updates; when the pass calls
\* db.set_system_config the call either sets the row or raises, and the
\* exception leaves apply_updates and update
RaceApplyItem(t, ok) ==
    LET call == race_call[t]
        items == call.items
        sensitive_keys ==
            {items[j].key : j \in {n \in 1..Len(items) : is_sensitive(items[n].key)}}
        acc == DbApplyItem(items[call.i], call.current_values, sensitive_keys, MaskToken,
                           [rows |-> race_table.lines, updated_keys |-> call.updated_keys,
                            skipped_masked |-> call.skipped_masked])
        writes == acc.updated_keys # call.updated_keys
    IN  /\ race_pc[t] = "apply"
        /\ call.i <= Len(items)
        /\ ok \/ writes
        /\ IF ok
           THEN /\ race_table' = [race_table EXCEPT !.lines = acc.rows]
                /\ race_call' = [race_call EXCEPT ![t].i = @ + 1,
                                                  ![t].updated_keys = acc.updated_keys,
                                                  ![t].skipped_masked = acc.skipped_masked]
                /\ UNCHANGED race_pc
           ELSE /\ race_call' = [race_call EXCEPT ![t].op = "write_failed",
                                                  ![t].failed_key = items[call.i].key]
                /\ race_pc' = [race_pc EXCEPT ![t] = "done"]
                /\ UNCHANGED race_table
        /\ UNCHANGED outsideRace

\* the end of DbBackend.apply_updates and of update: the new version is read
\* and returned
RaceApplyEnd(t) ==
    /\ race_pc[t] = "apply"
    /\ race_call[t].i > Len(race_call[t].items)
    /\ race_call' = [race_call EXCEPT ![t].op = "success",
                                      ![t].new_version = DbGetConfigVersion(race_table)]
    /\ race_pc' = [race_pc EXCEPT ![t] = "done"]
    /\ UNCHANGED <<race_table, outsideRace>>

\* the calls carry the version a client read from the table at the start
NextRace ==
    \/ \E t \in RaceThreads, items \in RaceItemLists :
         RaceUpdateCheck(t, DbGetConfigVersion(InitialFile), items)
    \/ \E t \in RaceThreads : RaceApplyBegin(t)
    \/ \E t \in RaceThreads, ok \in BOOLEAN : RaceApplyItem(t, ok)
    \/ \E t \in RaceThreads : RaceApplyEnd(t)

(***************************************************************************)
(* Quota-based rate limiter: src/data_provider/tushare_fetcher.py,         *)
(* TushareFetcher._check_rate_limit                                        *)
(***************************************************************************)
\* _minute_start before the first call
NoMinuteStart == -1
\* the length of the counting window and the buffer added to the wait
WindowSeconds == 60
BufferSeconds == 1

NoRateCall ==
    [op |-> "none", at |-> 0, found_start |-> NoMinuteStart, found_count |-> 0,
     waited |-> FALSE, returned_at |-> 0]

InitRateLimit ==
    /\ rl_quota = 0
    /\ rl_clock = 0
    /\ rl_minute_start = NoMinuteStart
    /\ rl_call_count = 0
    /\ rl_call = NoRateCall
    /\ rl_admits = 0

\* TushareFetcher.__init__
RateInit(rate_limit_per_minute) ==
    /\ rl_quota = 0
    /\ rl_quota' = rate_limit_per_minute
    /\ rl_minute_start' = NoMinuteStart
    /\ rl_call_count' = 0
    /\ UNCHANGED <<rl_clock, rl_call, rl_admits, outsideRateLimit>>

\* time passes between two calls
RateTick ==
    /\ rl_quota # 0
    /\ rl_clock + RateTimeStep <= MaxRateClock
    /\ rl_clock' = rl_clock + RateTimeStep
    /\ UNCHANGED <<rl_quota, rl_minute_start, rl_call_count, rl_call, rl_admits,
                   outsideRateLimit>>

\* the first part of _check_rate_limit: the counting window is opened on the
\* first call and reopened when 60 s have passed since it began
WindowAt(minute_start, call_count, current_time) ==
    IF minute_start = NoMinuteStart \/ current_time - minute_start >= WindowSeconds
    THEN [minute_start |-> current_time, call_count |-> 0]
    ELSE [minute_start |-> minute_start, call_count |-> call_count]

QuotaReachedNever(call_count, rate_limit_per_minute) == FALSE

\* self._call_count >= self.rate_limit_per_minute
QuotaReached(call_count, rate_limit_per_minute) ==
    call_count >= rate_limit_per_minute

\* max(0, 60 - elapsed) + 1
SleepTime(elapsed) ==
    (IF WindowSeconds - elapsed > 0 THEN WindowSeconds - elapsed ELSE 0)
        + BufferSeconds

\* _check_rate_limit, from its call to its return; time.sleep returns after
\* sleep_time or late seconds more
CheckRateLimit(late) ==
    LET window == WindowAt(rl_minute_start, rl_call_count, rl_clock)
        wait == QuotaReached(window.call_count, rl_quota)
        woke == rl_clock + SleepTime(rl_clock - window.minute_start) + late
        returned_at == IF wait THEN woke ELSE rl_clock
        minute_start == IF wait THEN woke ELSE window.minute_start
        call_count == IF wait THEN 0 ELSE window.call_count
    IN  /\ rl_quota # 0
        /\ returned_at <= MaxRateClock
        /\ wait \/ late = 0
        /\ rl_clock' = returned_at
        /\ rl_minute_start' = minute_start
        /\ rl_call_count' = call_count + 1
        /\ rl_call' = [op |-> "check", at |-> rl_clock,
                       found_start |-> window.minute_start,
                       found_count |-> window.call_count,
                       waited |-> wait, returned_at |-> returned_at]
        /\ rl_admits' = IF minute_start = rl_minute_start THEN rl_admits + 1 ELSE 1
        /\ UNCHANGED <<rl_quota, outsideRateLimit>>

NextRateLimit ==
    \/ \E rate_limit_per_minute \in 1..MaxQuota : RateInit(rate_limit_per_minute)
    \/ RateTick
    \/ \E late \in {0, 1} : CheckRateLimit(late)

(***************************************************************************)
(* Search provider key rotation: src/search_service.py, BaseSearchProvider *)
(***************************************************************************)
\* the API keys of the configuration, in the order they are listed
KeyNames == <<"key_a", "key_b", "key_c", "key_d">>
\* _get_next_key hands out a key while its error count is below this
KeyErrorLimit == 3

NoSearchCall ==
    [op |-> "none", found_next |-> 0, found_errors |-> <<>>, key |-> None,
     outcome |-> "none"]

InitSearch ==
    /\ sk_keys = <<>>
    /\ sk_next = 0
    /\ sk_errors = <<>>
    /\ sk_call = NoSearchCall

\* BaseSearchProvider.__init__
SearchInit(api_keys) ==
    /\ sk_next = 0
    /\ sk_keys' = api_keys
    /\ sk_next' = 1
    /\ sk_errors' = [key \in {api_keys[i] : i \in 1..Len(api_keys)} |-> 0]
    /\ UNCHANGED <<sk_call, outsideSearch>>

\* the index of the key the cycle yields d draws after the one at index next
CycleIndex(api_keys, next, d) == ((next - 1 + d) % Len(api_keys)) + 1

\* self._key_errors.get(key, 0) < 3
HandedOut(key_errors, key) == key_errors[key] < KeyErrorLimit

\* _get_next_key: the key it returns, the cycle position and the error
\* counts it leaves
_get_next_key(api_keys, next, key_errors) ==
    LET usable == {d \in 0..Len(api_keys) - 1 :
                     HandedOut(key_errors, api_keys[CycleIndex(api_keys, next, d)])}
        first == CHOOSE d \in usable : \A e \in usable : d <= e
    IN  IF api_keys = <<>>
        THEN [key |-> None, next |-> next, key_errors |-> key_errors]
        ELSE IF usable # {}
        THEN [key |-> api_keys[CycleIndex(api_keys, next, first)],
              next |-> CycleIndex(api_keys, next, first + 1),
              key_errors |-> key_errors]
        ELSE [key |-> api_keys[1], next |-> next,
              key_errors |-> [key \in DOMAIN key_errors |-> 0]]

\* _record_success: the error count of key goes down by one, not below 0
_record_success(key_errors, key) ==
    IF key_errors[key] > 0 THEN [key_errors EXCEPT ![key] = @ - 1] ELSE key_errors

\* _record_error
_record_error(key_errors, key) == [key_errors EXCEPT ![key] = @ + 1]

\* search: a key is taken, _do_search runs and its outcome is recorded
Search(outcome) ==
    LET r == _get_next_key(sk_keys, sk_next, sk_errors)
    IN  /\ sk_next # 0
        /\ sk_keys = <<>> => outcome = "no_key"
        /\ sk_keys # <<>> => outcome # "no_key"
        /\ sk_next' = r.next
        /\ sk_errors' = IF r.key = None THEN r.key_errors
                        ELSE IF outcome = "success"
                        THEN _record_success(r.key_errors, r.key)
                        ELSE _record_error(r.key_errors, r.key)
        /\ sk_call' = [op |-> "search", found_next |-> sk_next,
                       found_errors |-> sk_errors, key |-> r.key,
                       outcome |-> outcome]
        /\ UNCHANGED <<sk_keys, outsideSearch>>

NextSearch ==
    \/ \E n \in 0..MaxKeys : SearchInit(SubSeq(KeyNames, 1, n))
    \/ \E outcome \in {"no_key", "success", "failed", "raised"} : Search(outcome)

Init ==
    /\ InitBreaker /\ InitQuote /\ InitPanel /\ InitExpertPanel
    /\ InitTaskService /\ InitQueue /\ InitConfig /\ InitRace /\ InitBreakerRace
    /\ InitRateLimit /\ InitSearch

SpecQuote == Init /\ [][NextQuote]_vars

NextBreaker ==
    \/ Tick /\ UNCHANGED <<cbVars, qVars, panelVars, epVars, tsVars, tqVars, cfgVars, raceVars, brVars,
                           rlVars, skVars>>
    \/ \E s \in HarnessSources : CallIsAvailable(s) /\ UNCHANGED outsideBreaker
    \/ \E s \in HarnessSources : CallRecordSuccess(s) /\ UNCHANGED outsideBreaker
    \/ \E s \in HarnessSources : CallRecordFailure(s) /\ UNCHANGED outsideBreaker
    \/ \E s \in HarnessSources : CallReset(s) /\ UNCHANGED outsideBreaker

SpecBreaker == Init /\ [][NextBreaker]_vars

SpecPanel == Init /\ [][NextPanel]_vars

SpecExpertPanel == Init /\ [][NextExpertPanel]_vars

SpecTaskService == Init /\ [][NextTaskService]_vars

SpecQueue == Init /\ [][NextQueue]_vars

SpecConfig == Init /\ [][NextConfig]_vars

SpecConfigRace == Init /\ [][NextRace]_vars

SpecBreakerRace == Init /\ [][NextBreakerRace]_vars

SpecRateLimit == Init /\ [][NextRateLimit]_vars

SpecSearch == Init /\ [][NextSearch]_vars

(***************************************************************************)
(* Claims                                                                  *)
(***************************************************************************)

\* C3: for every source, an is_available call that finds the source OPEN with
\* less than cooldown_seconds elapsed since last_failure_time returns False
\* (and leaves the source OPEN).
C3_OpenWithinCooldownUnavailable ==
    (/\ cb_call.op = "is_available"
     /\ cb_call.pre.state = OPEN
     /\ cb_call.at - cb_call.pre.last_failure_time < cooldown_seconds)
    => (/\ cb_call.ret = FALSE
        /\ cb_states[cb_call.source].state = OPEN)

\* C3 witness: is_available was called on an OPEN source inside its cooldown,
\* after time had passed since the failure, and answered False.
C3_Witness ==
    /\ cb_call.op = "is_available"
    /\ cb_call.pre.state = OPEN
    /\ cb_call.at > cb_call.pre.last_failure_time
    /\ cb_call.at - cb_call.pre.last_failure_time < cooldown_seconds
    /\ cb_call.ret = FALSE

\* C8: between entering HALF_OPEN and the next recorded outcome, is_available
\* answers True on a HALF_OPEN source at most half_open_max_calls times.
C8_HalfOpenProbesLimited ==
    \A s \in Sources : cb_probes[s] <= half_open_max_calls

\* the threads whose upstream bulk call for cache c is in flight
InFlight(c) == {t \in Threads : q[t].pc = "in_api" /\ CacheOf(q[t].market) = c}

\* C4: for each bulk-quote cache at most one upstream refresh call is in
\* flight at any instant.
C4_OneRefreshInFlight ==
    \A c \in CacheNames : Cardinality(InFlight(c)) <= 1

\* C9: a thread whose upstream request is in flight, and whose outcome will be
\* recorded under RecordKey, consulted is_available under that same name.
C9_ConsultedRecordedName ==
    \A t \in Threads :
        q[t].pc = "in_api" => q[t].consulted = RecordKey(q[t].market)

\* C5: a successful _run_single_model call reports as endpoint_tried the ids
\* of the first fallback_count + 1 endpoints of E, the enabled endpoints in
\* descending priority order, with endpoint_used the id of the last of them,
\* the endpoint at zero-based index fallback_count of E.
C5_TriedIsPrefixEndingWithUsed ==
    (panel_pc = "done" /\ panel_res.success) =>
        LET E == SortEndpoints(EnabledEndpoints(panel_cfg))
            k == panel_res.fallback_count
        IN  /\ \A i \in 1..Len(E) - 1 : E[i].priority >= E[i + 1].priority
            /\ Len(E) = Cardinality({i \in 1..Len(panel_cfg) : panel_cfg[i].enabled})
            /\ k + 1 \in 1..Len(E)
            /\ panel_res.endpoint_tried = [i \in 1..k + 1 |-> E[i].id]
            /\ panel_res.endpoint_used = E[k + 1].id

\* C5 witness: a success after a failover, on an endpoint that is neither the
\* first nor the last of E, of a configuration that is not in priority
\* order.
C5_Witness ==
    /\ panel_pc = "done"
    /\ panel_res.success
    /\ panel_res.fallback_count = 1
    /\ Len(SortEndpoints(EnabledEndpoints(panel_cfg))) = 3
    /\ panel_res.endpoint_tried = <<"primary", "backup">>
    /\ panel_res.endpoint_used = "backup"
    /\ SortEndpoints(EnabledEndpoints(panel_cfg)) # panel_cfg

\* position of a status value in the lifecycle pending, processing, terminal
\* ("running" is the task service's name for processing)
StatusRank(status) ==
    CASE status = "pending" -> 0
      [] status \in {"processing", "running"} -> 1
      [] status \in {"completed", "failed"} -> 2

\* C6: the status values a task takes over time only move forward through
\* pending, processing, terminal: each change goes to a later stage, so a
\* terminal status is never left or replaced.
C6_StatusMovesForward ==
    \A id \in DOMAIN ts_seen :
        \A i \in 1..Len(ts_seen[id]) - 1 :
            StatusRank(ts_seen[id][i]) < StatusRank(ts_seen[id][i + 1])

\* C1: for every stock code, at every instant, at most one task of the queue
\* with that stock code is pending or processing.
C1_OneActiveTaskPerStock ==
    \A code \in StockCodes :
        Cardinality({id \in ActiveTasks(tq_tasks) : tq_tasks[id].stock_code = code}) <= 1

\* C1 witness: a second task of a stock code was accepted after the first one
\* ended, and a further submit of that code was answered 409 naming it.
C1_Witness ==
    /\ Len(tq_tasks) = 2
    /\ tq_tasks[1].stock_code = tq_tasks[2].stock_code
    /\ tq_tasks[1].status = "completed"
    /\ tq_tasks[2].status = "processing"
    /\ tq_resp = [status_code |-> 409, stock_code |-> tq_tasks[2].stock_code, task_id |-> 2]

\* the types of the events of task id that connection c has sent, in order
SentFor(c, id) ==
    LET evs == SelectSeq(sse[c].sent, LAMBDA e : e.task_id = id)
    IN  [i \in 1..Len(evs) |-> evs[i].type]

\* C10: a connection that had sent `connected` when a task was submitted, is
\* still streaming and has nothing left to forward has, once that task is
\* completed, sent exactly task_created, task_started, task_completed for it,
\* in that order.
C10_LifecycleEventsInOrder ==
    \A c \in Connections : \A id \in DOMAIN tq_tasks :
        (/\ c \in tq_tasks[id].connected
         /\ tq_tasks[id].status = "completed"
         /\ sse[c].pc = "streaming"
         /\ sse[c].event_queue = <<>>)
        => SentFor(c, id) = <<"task_created", "task_started", "task_completed">>

\* C2: a version check of update that is given a config_version other than
\* the backend's version ends in config_version_conflict, carries the
\* backend's version and leaves the file as it was; and an update that changed
\* the content of the file changed the version, so the version read before
\* that write is such a config_version.
C2_StaleVersionRejected ==
    /\ (/\ cfg_call.op \in {"config_version_conflict", "checked"}
        /\ cfg_call.config_version # BackendVersion(cfg_backend, cfg_call.before))
       => (/\ cfg_call.op = "config_version_conflict"
           /\ cfg_call.error_version = BackendVersion(cfg_backend, cfg_call.before)
           /\ cfg_file = cfg_call.before)
    /\ (cfg_call.op = "success" /\ cfg_file.lines # cfg_call.before.lines)
       => BackendVersion(cfg_backend, cfg_file) # BackendVersion(cfg_backend, cfg_call.before)

\* C2 witness: after an update rewrote the file, an update carrying the
\* version of the file the service started with was answered with a
\* conflict that carries the present version.
C2_Witness ==
    /\ cfg_call.op = "config_version_conflict"
    /\ cfg_call.config_version = BackendVersion(cfg_backend, InitialFile)
    /\ cfg_file.lines # InitialFile.lines
    /\ cfg_call.error_version = BackendVersion(cfg_backend, cfg_file)

\* the last update succeeded, key is sensitive with a non-empty stored value
\* and one of the items is key = mask token
MaskedItemSent(key) ==
    /\ cfg_call.op = "success"
    /\ is_sensitive(key)
    /\ BackendRead(cfg_backend, cfg_call.before)[key] # ""
    /\ \E i \in 1..Len(cfg_call.items) :
         cfg_call.items[i] = [key |-> key, value |-> MaskToken]

\* the stored value of key is what it was, key is counted as skipped and
\* not as updated, and every other key whose items carry one value that
\* differs from the stored one now holds that value (on one line in the
\* .env file) and is counted as updated
MaskedItemKept(key) ==
    /\ cfg_file.lines[key] = cfg_call.before.lines[key]
    /\ \E j \in 1..Len(cfg_call.skipped_masked) : cfg_call.skipped_masked[j] = key
    /\ \A j \in 1..Len(cfg_call.updated_keys) : cfg_call.updated_keys[j] # key
    /\ \A other \in ConfigKeys \ {key} : \A w \in SubmittedValues(other) :
         (/\ \E i \in 1..Len(cfg_call.items) : cfg_call.items[i].key = other
          /\ \A i \in 1..Len(cfg_call.items) :
               cfg_call.items[i].key = other => cfg_call.items[i].value = w
          /\ w # BackendRead(cfg_backend, cfg_call.before)[other]
          /\ ~(is_sensitive(other) /\ w = MaskToken))
         => (/\ cfg_file.lines[other] =
                   (IF cfg_backend = "db" THEN w ELSE RemoveNewlines(w))
             /\ \E j \in 1..Len(cfg_call.updated_keys) : cfg_call.updated_keys[j] = other)

\* C7 as stated: a successful update that contains the item K = mask token
\* for a sensitive key K with a non-empty stored value, whatever its other
\* items, keeps the stored value of K, counts K as skipped and not as
\* updated, and applies the other changed items.
C7_MaskedItemKeepsValue ==
    \A key \in ConfigKeys : MaskedItemSent(key) => MaskedItemKept(key)

\* C7 amended: the same, for updates in which every item of K carries the
\* mask token.
C7_OnlyMaskedItemsKeepValue ==
    \A key \in ConfigKeys :
        (/\ MaskedItemSent(key)
         /\ \A i \in 1..Len(cfg_call.items) :
              cfg_call.items[i].key = key => cfg_call.items[i].value = MaskToken)
        => MaskedItemKept(key)

\* C7 witness: GEMINI_API_KEY = mask token together with a new STOCK_LIST:
\* the key is kept and skipped, the stock list is written.
C7_Witness ==
    /\ cfg_call.op = "success"
    /\ cfg_call.items = <<[key |-> "GEMINI_API_KEY", value |-> MaskToken],
                          [key |-> "STOCK_LIST", value |-> "600519,300750"]>>
    /\ cfg_call.before.lines["GEMINI_API_KEY"] = "secret-key-value"
    /\ cfg_file.lines["GEMINI_API_KEY"] = "secret-key-value"
    /\ cfg_file.lines["STOCK_LIST"] = "600519,300750"
    /\ cfg_call.skipped_masked = <<"GEMINI_API_KEY">>
    /\ cfg_call.updated_keys = <<"STOCK_LIST">>

\* the events the queue publishes in one run: created, started and a terminal
\* event for each task
EventsPerRun == 3 * MaxTasks

\* C11: every subscriber's channel is bounded: a channel never holds all the
\* events of a run, because a subscriber that does not drain it has the
\* events beyond its capacity dropped and counted.
C11_ChannelBoundedDropsWhenFull ==
    \A c \in Connections :
        \/ Len(sse[c].event_queue) < EventsPerRun
        \/ sse[c].dropped > 0

\* the error an endpoint attempt ended with: the unavailable-analyzer text,
\* result.error_message, or the text of the exception
AttemptError(o) == IF o.kind = "unavailable" THEN UnavailableText ELSE o.text

\* C12: after an endpoint attempt that ended with an error outside the
\* switchable classes no further endpoint is attempted: that endpoint is the
\* last one tried and the model's result is a failure.
C12_TerminalErrorStopsFailover ==
    panel_pc = "done" =>
        \A i \in 1..Len(panel_res.endpoint_tried) :
            (/\ panel_outs[i].kind # "success"
             /\ ~_is_endpoint_switchable_error(AttemptError(panel_outs[i])))
            => (i = Len(panel_res.endpoint_tried) /\ ~panel_res.success)

\* every enabled endpoint of the call failed with a switchable error
AllSwitchable ==
    /\ panel_pc = "done"
    /\ Len(panel_outs) > 0
    /\ \A i \in 1..Len(panel_outs) :
          /\ panel_outs[i].kind \in {"result_error", "exception"}
          /\ _is_endpoint_switchable_error(panel_outs[i].text)

\* the failed result of an exhausted model, but for its error
ExhaustedShape ==
    LET E == SortEndpoints(EnabledEndpoints(panel_cfg))
    IN  /\ ~panel_res.success
        /\ panel_res.endpoint_tried = [i \in 1..Len(E) |-> E[i].id]
        /\ panel_res.endpoint_used = None

\* C13 as stated: when every enabled endpoint fails with a switchable error
\* the result is failed, endpoint_tried lists all enabled endpoints in
\* priority order, endpoint_used is absent and error is the error of the last
\* endpoint tried.
C13_ExhaustedErrorIsLastError ==
    AllSwitchable =>
        /\ ExhaustedShape
        /\ panel_res.error = panel_outs[Len(panel_outs)].text

\* C13 amended: as above, but error is the first 200 characters of the error
\* of the last endpoint tried.
C13_ExhaustedErrorIsLastErrorCut ==
    AllSwitchable =>
        /\ ExhaustedShape
        /\ panel_res.error = Prefix(panel_outs[Len(panel_outs)].text, ErrorLimit)

\* three enabled endpoints all fail with a switchable error, the last with a
\* short text; the configured order is not the priority order
C13_Witness ==
    /\ AllSwitchable
    /\ Len(panel_outs) = 3
    /\ panel_outs[3].text.len < ErrorLimit
    /\ panel_outs[1].text.len > ErrorLimit
    /\ SortEndpoints(EnabledEndpoints(panel_cfg)) # EnabledEndpoints(panel_cfg)
    /\ panel_res.error = panel_outs[3].text
    /\ panel_res.fallback_count = 2

\* C14: after a bulk refresh of a cache failed to the end, a request that
\* checks that cache within ttl of the failed refresh is answered from the
\* cached empty frame: it issues no upstream call. For the A-share, ETF and
\* HK caches alike.
C14_FailedRefreshAnsweredFromCache ==
    \A t \in Threads :
        q[t].pc \in {"call", "in_api"} => ~q[t].after_failure

\* the successful ModelResults of the panel that has returned
Successful == SelectSeq(ep_results, LAMBDA r : r.success)

\* every successful ModelResult of the returned panel has the score k
SameScore(k) ==
    /\ ep_pc = "done"
    /\ ep_out.returned
    /\ Successful # <<>>
    /\ \A i \in 1..Len(Successful) : Successful[i].score = k

\* C15 as stated: if every successful ModelResult of a returned panel has the
\* same score k, consensus_score is k and consensus_advice is the advice of
\* those results.
C15_SameScoreGivesScoreAndAdvice ==
    \A k \in Scores :
        SameScore(k) =>
            /\ ep_out.consensus_score = k
            /\ \A i \in 1..Len(Successful) :
                  ep_out.consensus_advice = Successful[i].advice

\* C15 amended: if every successful ModelResult of a returned panel has the
\* same score k and the same advice a, and a is not empty, consensus_score is
\* k and consensus_advice is a.
C15_SameScoreSameAdvice ==
    \A k \in Scores, a \in Advices :
        (SameScore(k) /\ \A i \in 1..Len(Successful) : Successful[i].advice = a)
        => (ep_out.consensus_score = k /\ ep_out.consensus_advice = a)

\* two models succeed with score 61 and advice hold; the panel says 61, hold
C15_Witness ==
    /\ SameScore(61)
    /\ Len(Successful) = 2
    /\ \A i \in 1..2 : Successful[i].advice = "hold"
    /\ ep_out.consensus_score = 61
    /\ ep_out.consensus_advice = "hold"

\* no ModelResult of the finished panel run is both successful and scored
NothingContributes ==
    /\ ep_pc = "done"
    /\ \A i \in 1..Len(ep_results) :
          ~(ep_results[i].success /\ ep_results[i].score # NoScore)

\* the panel returned with the consensus of insufficient data
InsufficientPanel ==
    /\ ep_out.returned
    /\ ep_out.consensus_score = NoScore
    /\ ep_out.consensus_advice = InsufficientData
    /\ ep_out.consensus_strategy = None

\* C16 as stated: if no ModelResult is both successful and scored, the panel
\* returns normally with consensus_score absent, consensus_advice the
\* insufficient-data value and consensus_strategy absent.
C16_NothingContributesInsufficient ==
    NothingContributes => InsufficientPanel

\* C16 amended: the same for a panel run with at least one configured model.
C16_ConfiguredNothingContributesInsufficient ==
    (NothingContributes /\ ep_names # <<>>) => InsufficientPanel

\* one model failed, the other succeeded without a score but with strategy
\* points: the panel returned insufficient data
C16_Witness ==
    /\ NothingContributes
    /\ Len(ep_results) = 2
    /\ ~ep_results[1].success
    /\ ep_results[2].success
    /\ ep_results[2].raw_result = "points_a"
    /\ InsufficientPanel

\* C17: a submit for a stock code that has a pending or processing task is
\* answered 409 duplicate_task with the id of that task, and the task table
\* is left as it was.
C17_DuplicateSubmitRejected ==
    [][\A code \in StockCodes :
          LET active == {id \in ActiveTasks(tq_tasks) : tq_tasks[id].stock_code = code}
          IN  (active # {} /\ HandleAsyncAnalysis(code)) =>
                 /\ tq_tasks' = tq_tasks
                 /\ tq_resp'.status_code = 409
                 /\ tq_resp'.stock_code = code
                 /\ tq_resp'.task_id \in active]_vars

\* a submit was answered 409 naming the only task, which is still pending
C17_Witness ==
    /\ Len(tq_tasks) = 1
    /\ tq_tasks[1].status = "pending"
    /\ tq_resp = [status_code |-> 409, stock_code |-> tq_tasks[1].stock_code, task_id |-> 1]

\* C18: a source that was CLOSED with failure counter 0 and has since had
\* fewer than failure_threshold failures recorded in a row is CLOSED and
\* available; the failure that makes the row failure_threshold long finds it
\* CLOSED and leaves it OPEN.
C18_OpensAtThreshold ==
    \A s \in Sources :
        /\ (cb_streak[s] >= 1 /\ cb_streak[s] < failure_threshold) =>
              /\ s \in DOMAIN cb_states
              /\ cb_states[s].state = CLOSED
              /\ IsAvailable(cb_states, s, now).ret
        /\ (/\ cb_call.op = "record_failure"
            /\ cb_call.source = s
            /\ cb_streak[s] = failure_threshold) =>
              /\ cb_call.pre.state = CLOSED
              /\ cb_states[s].state = OPEN

\* the third failure in a row, recorded later than the first, opened a source
\* while the other source, two failures in a row, is still closed
C18_Witness ==
    \E s, o \in HarnessSources :
        /\ cb_call.op = "record_failure"
        /\ cb_call.source = s
        /\ cb_streak[s] = failure_threshold
        /\ cb_call.pre.state = CLOSED
        /\ cb_call.pre.last_failure_time < cb_call.at
        /\ cb_states[s].state = OPEN
        /\ cb_streak[o] = failure_threshold - 1
        /\ cb_states[o].state = CLOSED

\* C19: an is_available call that finds the source OPEN at least
\* cooldown_seconds after last_failure_time returns True and leaves the source
\* HALF_OPEN.
C19_OpenAfterCooldownHalfOpens ==
    (/\ cb_call.op = "is_available"
     /\ cb_call.pre.state = OPEN
     /\ cb_call.at - cb_call.pre.last_failure_time >= cooldown_seconds)
    => (/\ cb_call.ret = TRUE
        /\ cb_states[cb_call.source].state = HALF_OPEN)

\* is_available was called on an OPEN source exactly cooldown_seconds after
\* its last failure, answered True and left it HALF_OPEN
C19_Witness ==
    /\ cb_call.op = "is_available"
    /\ cb_call.pre.state = OPEN
    /\ cb_call.at - cb_call.pre.last_failure_time = cooldown_seconds
    /\ cb_call.ret = TRUE
    /\ cb_states[cb_call.source].state = HALF_OPEN

\* C20: after a failure recorded on a HALF_OPEN source, and until the next
\* call on the breaker, the source is OPEN with last_failure_time the time of
\* that failure, and is_available answers False while less than
\* cooldown_seconds have passed since that failure.
C20_HalfOpenFailureReopens ==
    (cb_call.op = "record_failure" /\ cb_call.pre.state = HALF_OPEN) =>
        /\ cb_states[cb_call.source].state = OPEN
        /\ cb_states[cb_call.source].last_failure_time = cb_call.at
        /\ now - cb_call.at < cooldown_seconds =>
              ~IsAvailable(cb_states, cb_call.source, now).ret

\* a failure was recorded on a HALF_OPEN source whose previous failure was
\* a cooldown earlier; time has passed since and the source is unavailable
C20_Witness ==
    /\ cb_call.op = "record_failure"
    /\ cb_call.pre.state = HALF_OPEN
    /\ cb_call.at - cb_call.pre.last_failure_time >= cooldown_seconds
    /\ now > cb_call.at
    /\ cb_states[cb_call.source].state = OPEN
    /\ ~IsAvailable(cb_states, cb_call.source, now).ret

\* C21: a record_success call that finds the source CLOSED with failure
\* counter n leaves it CLOSED with counter n - 1, or 0 when n was 0.
C21_SuccessDecrementsCounter ==
    (cb_call.op = "record_success" /\ cb_call.pre.state = CLOSED) =>
        /\ cb_states[cb_call.source].state = CLOSED
        /\ cb_states[cb_call.source].failures =
              IF cb_call.pre.failures > 0 THEN cb_call.pre.failures - 1 ELSE 0

\* C22 as stated: a successful update that wrote at least one key it found
\* changed (updated_keys is not empty) returns a backend version that differs
\* from the version the backend had before the write.
C22_WriteChangesVersion ==
    (cfg_call.op = "success" /\ cfg_call.updated_keys # <<>>)
        => BackendVersion(cfg_backend, cfg_file)
              # BackendVersion(cfg_backend, cfg_call.before)

\* C22 amended: with either backend, a successful update after which the
\* stored text of at least one written key differs from the text stored
\* before returns a version that differs from the one before the write.
C22_StoredChangeChangesVersion ==
    (/\ cfg_call.op = "success"
     /\ \E j \in 1..Len(cfg_call.updated_keys) :
          cfg_file.lines[cfg_call.updated_keys[j]]
             # cfg_call.before.lines[cfg_call.updated_keys[j]])
        => BackendVersion(cfg_backend, cfg_file)
              # BackendVersion(cfg_backend, cfg_call.before)

\* C22 witness: the db backend wrote a new STOCK_LIST row and its version
\* changed.
C22_Witness ==
    /\ cfg_backend = "db"
    /\ cfg_call.op = "success"
    /\ cfg_call.updated_keys = <<"STOCK_LIST">>
    /\ cfg_file.lines["STOCK_LIST"] # cfg_call.before.lines["STOCK_LIST"]
    /\ DbGetConfigVersion(cfg_file) # DbGetConfigVersion(cfg_call.before)

\* C23: an update that passed the version check and carries no items
\* succeeds, writes nothing, and the backend's version after it is the
\* version before it.
C23_EmptyUpdateKeepsVersion ==
    (cfg_call.op = "success" /\ cfg_call.items = <<>>)
        => /\ cfg_call.updated_keys = <<>>
           /\ cfg_file = cfg_call.before
           /\ BackendVersion(cfg_backend, cfg_file)
                 = BackendVersion(cfg_backend, cfg_call.before)

\* C23 witness: an empty update succeeded on a file that an earlier update
\* had rewritten.
C23_Witness ==
    /\ cfg_backend = "env"
    /\ cfg_call.op = "success"
    /\ cfg_call.items = <<>>
    /\ cfg_file.lines # InitialFile.lines
    /\ cfg_file.mtime < MaxMtime

\* C24: an update that passed the version check and has an item with a
\* validation error raises validation_failed with the issues of its items,
\* and the store and its version are what they were: no item is written,
\* the valid ones included.
C24_ValidationErrorWritesNothing ==
    (/\ cfg_call.op \in {"success", "validation_failed"}
     /\ \E i \in 1..Len(cfg_call.items) :
          ValueHasError(cfg_call.items[i].key, cfg_call.items[i].value))
        => /\ cfg_call.op = "validation_failed"
           /\ cfg_call.issues # <<>>
           /\ \A i \in 1..Len(cfg_call.items) :
                ValueHasError(cfg_call.items[i].key, cfg_call.items[i].value)
                   => \E j \in 1..Len(cfg_call.issues) :
                         cfg_call.issues[j] = cfg_call.items[i].key
           /\ cfg_call.updated_keys = <<>>
           /\ cfg_file = cfg_call.before
           /\ BackendVersion(cfg_backend, cfg_file)
                 = BackendVersion(cfg_backend, cfg_call.before)

\* C24 witness: a valid new value for GEMINI_API_KEY together with a
\* STOCK_LIST of two lines: the update failed and the key is what it was.
C24_Witness ==
    /\ cfg_call.op = "validation_failed"
    /\ cfg_call.items = <<[key |-> "GEMINI_API_KEY", value |-> ""],
                          [key |-> "STOCK_LIST", value |-> "600519\n300750"]>>
    /\ cfg_call.issues = <<"STOCK_LIST">>
    /\ cfg_file.lines["GEMINI_API_KEY"] = "secret-key-value"

\* C25: an update that passed the version check and has an item whose
\* value contains a newline raises validation_failed, and no stored value
\* ever contains a newline.
C25_NewlineValueRejected ==
    /\ (/\ cfg_call.op \in {"success", "validation_failed"}
        /\ \E i \in 1..Len(cfg_call.items) : HasNewline(cfg_call.items[i].value))
           => cfg_call.op = "validation_failed"
    /\ \A k \in ConfigKeys : ~HasNewline(cfg_file.lines[k])

\* C30: once an update has changed the stored content, no update that
\* carries the version of the store the service started with passes the
\* version check, whatever the content has become since.
C30_VersionNotReused ==
    ~(/\ cfg_written
      /\ cfg_call.op = "checked"
      /\ cfg_call.config_version = BackendVersion(cfg_backend, InitialFile))

\* C26: when a db.set_system_config call of an apply fails and no other
\* update has begun, every key of that apply holds the value it had when the
\* apply began.
C26_DbApplyAllOrNothing ==
    \A t \in RaceThreads :
        (/\ race_call[t].op = "write_failed"
         /\ \A u \in RaceThreads \ {t} : race_pc[u] = "idle")
            => \A i \in 1..Len(race_call[t].items) :
                  race_table.lines[race_call[t].items[i].key]
                     = race_call[t].current_values[race_call[t].items[i].key]

\* C29: of two update calls that carry the same config_version and write
\* different keys, at most one succeeds.
C29_ConcurrentUpdatesOneSucceeds ==
    ~(/\ race_call[1].op = "success" /\ race_call[2].op = "success"
      /\ race_call[1].config_version = race_call[2].config_version
      /\ race_call[1].updated_keys # <<>> /\ race_call[2].updated_keys # <<>>
      /\ \A i \in 1..Len(race_call[1].updated_keys) :
           \A j \in 1..Len(race_call[2].updated_keys) :
              race_call[1].updated_keys[i] # race_call[2].updated_keys[j])

\* C27 as stated: the model_results of a returned panel are in the order of
\* the caller's selected_models list, results whose name is not in that list
\* coming last.
C27_ResultsInCallerOrder ==
    (ep_pc = "done" /\ ep_out.returned)
        => \A i \in 1..Len(ep_results) : \A j \in i + 1..Len(ep_results) :
              NameIndex(ep_selected, ep_results[i].model_name)
                 <= NameIndex(ep_selected, ep_results[j].model_name)

\* C27 amended: the model_results of a returned panel are one result per
\* selected config, in the order of model_names (the selected configs in
\* configuration order), whatever the order in which the workers finished.
C27_ResultsInModelNamesOrder ==
    (ep_pc = "done" /\ ep_out.returned)
        => /\ Len(ep_results) = Len(ep_names)
           /\ \A i \in 1..Len(ep_results) : ep_results[i].model_name = ep_names[i]

\* C27 witness: a panel of two models whose workers finished in the other
\* order has returned.
C27_Witness ==
    /\ ep_pc = "done"
    /\ ep_out.returned
    /\ ep_reordered
    /\ Len(ep_results) = 2
    /\ ep_results[1].model_name = ep_names[1]

\* C28: when some successful and scored result of a finished panel carries
\* strategy points, the panel has returned and its consensus_strategy is the
\* points of a highest-scoring such result among those whose advice is the
\* consensus advice, or, when none of them has that advice, the points of the
\* first such result.
C28_StrategyOfBestMatching ==
    LET available == {i \in 1..Len(ep_results) :
                        /\ ep_results[i].success /\ ep_results[i].score # NoScore
                        /\ SniperPoints(ep_results[i].raw_result) # None}
        candidates == {i \in available : ep_results[i].advice = ep_out.consensus_advice}
    IN  (ep_pc = "done" /\ available # {})
           => /\ ep_out.returned
              /\ IF candidates # {}
                 THEN \E i \in candidates :
                         /\ \A j \in candidates : ep_results[j].score <= ep_results[i].score
                         /\ ep_out.consensus_strategy = SniperPoints(ep_results[i].raw_result)
                 ELSE \E i \in available :
                         /\ \A j \in available : i <= j
                         /\ ep_out.consensus_strategy = SniperPoints(ep_results[i].raw_result)

\* C34: an is_available call that finds the source OPEN when cooldown_seconds
\* have passed since the failure that opened it returns True and leaves the
\* source HALF_OPEN, whatever failures were recorded while it was OPEN.
C34_OpenFailuresDoNotPostpone ==
    (/\ cb_call.op = "is_available"
     /\ cb_call.pre.state = OPEN
     /\ cb_call.at - cb_opened[cb_call.source] >= cooldown_seconds)
        => /\ cb_call.ret
           /\ cb_states[cb_call.source].state = HALF_OPEN

\* C31: when failure_threshold threads have each finished one record_failure
\* call on a source that had no recorded failure, the source is OPEN and its
\* counter is the number of calls.
C31_ConcurrentFailuresOpen ==
    (\A t \in FailureThreads : br_pc[t] = "done")
        => /\ br_states # 0
           /\ br_dicts[br_states].state = OPEN
           /\ br_dicts[br_states].failures = failure_threshold

\* C32: for every stock code, at every instant, at most one work item that
\* submit_analysis handed to the executor for that code is queued or running.
C32_OneAnalysisPerCode ==
    \A code \in StockCodes :
        Cardinality({j \in DOMAIN ts_jobs :
                        /\ ts_jobs[j].code = code
                        /\ ts_jobs[j].pc \in {"queued", "running"}}) <= 1

\* C33: get_task_status finds a record under every task_id that
\* submit_analysis has returned, whether or not a pool thread has started
\* the work item.
C33_SubmittedTaskHasRecord ==
    \A j \in DOMAIN ts_jobs : ts_jobs[j].task_id \in DOMAIN ts_tasks

\* C35: the ModelResult _run_single_model returned names in endpoint_used
\* the last endpoint it tried when it is a success, and has endpoint_used
\* None when it is a failure.
C35_EndpointUsedOnlyOnSuccess ==
    panel_pc = "done"
        => IF panel_res.success
           THEN /\ panel_res.endpoint_tried # <<>>
                /\ panel_res.endpoint_used
                      = panel_res.endpoint_tried[Len(panel_res.endpoint_tried)]
           ELSE panel_res.endpoint_used = None

\* the results of the finished workers as a set, and listed by model name in
\* the order of model_names: neither depends on the order of completion
ResultSet == {ep_results[k] : k \in 1..Len(ep_results)}
ResultsByName ==
    [i \in 1..Len(ep_names) |->
        CHOOSE r \in ResultSet : r.model_name = ep_names[i]]

\* C36: the consensus of a finished panel is a function of the per-model
\* outcomes alone: whether the panel returns, and the consensus_score,
\* consensus_advice and consensus_strategy it returns, are what
\* _compute_consensus gives for the outcomes listed by model name, whatever
\* the order in which the workers finished.
C36_ConsensusIgnoresCompletionOrder ==
    (ep_pc = "done" /\ ep_names # <<>>)
        => LET consensus == _compute_consensus(ResultsByName)
           IN  /\ ep_out.returned = ~consensus.raised
               /\ ep_out.returned
                    => /\ ep_out.consensus_score = consensus.score
                       /\ ep_out.consensus_advice = consensus.advice
                       /\ ep_out.consensus_strategy = consensus.strategy

\* C36 witness: a panel has returned whose two workers finished in the other
\* order with outcomes for which the order of the list matters: both
\* contribute, one advice each, so the first of the list decides the advice.
C36_Witness ==
    /\ ep_pc = "done"
    /\ ep_out.returned
    /\ ep_reordered
    /\ Len(ep_results) = 2
    /\ \A i \in 1..2 : ep_results[i].success /\ ep_results[i].score # NoScore
    /\ ep_results[1].advice = "buy"
    /\ ep_results[2].advice = "hold"
    /\ ep_out.consensus_advice = "buy"

\* C37: when all workers of a panel run are in, model_results holds exactly
\* one ModelResult for each name of model_names and nothing else, a failed one
\* for a worker that raised, and the panel that is returned lists model_names
\* as models_used.
C37_OneResultPerSelectedModel ==
    ep_pc = "done"
        => /\ Len(ep_results) = Len(ep_names)
           /\ \A i \in 1..Len(ep_names) :
                 Cardinality({k \in 1..Len(ep_results) :
                                 ep_results[k].model_name = ep_names[i]}) = 1
           /\ ep_out.returned => ep_out.models_used = ep_names

\* C37 witness: a panel over two models has returned, one of whose workers
\* raised and one of whose workers succeeded.
C37_Witness ==
    /\ ep_pc = "done"
    /\ ep_out.returned
    /\ Len(ep_names) = 2
    /\ ep_out.models_used = ep_names
    /\ \E k \in 1..Len(ep_results) : ep_results[k] = FailedResult(ep_results[k].model_name)
    /\ \E k \in 1..Len(ep_results) : ep_results[k].success

C39_QuotaBlocksUntilNextWindow ==
    /\ (rl_call.op = "check" /\ rl_call.found_count >= rl_quota)
          => /\ rl_call.waited
             /\ rl_call.returned_at
                   >= rl_call.found_start + WindowSeconds + BufferSeconds
             /\ rl_minute_start = rl_call.returned_at
    /\ rl_quota # 0 => rl_admits <= rl_quota

\* C39 witness: a call made in the middle of a window that already held as
\* many calls as the quota allows has waited and returned.
C39_Witness ==
    /\ rl_call.op = "check"
    /\ rl_call.found_count = rl_quota
    /\ rl_quota = MaxQuota
    /\ rl_call.at > rl_call.found_start
    /\ rl_call.at < rl_call.found_start + WindowSeconds
    /\ rl_call.waited
    /\ rl_admits = 1

\* C40: _get_next_key returns the first key, in cycle order from the key
\* whose turn it is, whose error count does not exceed 3; in particular the
\* key whose turn it is when its error count does not exceed 3.
C40_SkipsOnlyKeysOverThreshold ==
    (sk_call.op = "search" /\ sk_keys # <<>>)
        => LET within == {d \in 0..Len(sk_keys) - 1 :
                            sk_call.found_errors[
                                sk_keys[CycleIndex(sk_keys, sk_call.found_next, d)]]
                              <= KeyErrorLimit}
           IN  \A d \in within :
                  (\A e \in within : d <= e)
                     => sk_call.key = sk_keys[CycleIndex(sk_keys, sk_call.found_next, d)]

====
